---- MODULE Spec2Model ----
(***************************************************************************)
(* Model of the substitution reconciliation engine of                      *)
(* skolaonline-suplovani (package supl): the grouped reconciliation of     *)
(* substitution records, the day-end clamp, the class filter of the record *)
(* extractor and the period resolver.                                      *)
(*                                                                         *)
(* Strings on which the code works character by character (strip, lower,   *)
(* substring tests, regular expressions, f-strings) are sequences of       *)
(* one-character strings: "za M" is <<"z","a"," ","M">>.  Record objects   *)
(* (Python dicts, which the code mutates in place and passes by reference) *)
(* live in `heap`; a list of records is a sequence of heap indices.        *)
(***************************************************************************)
EXTENDS Integers, Sequences, FiniteSets, TLC

VARIABLES
    pc,            \* position of the operation under analysis
    heap,          \* record objects: heap[i] is the dict with identity i
    input,         \* history: the field values of heap when the call began
    records,       \* the list handed to the operation (heap indices)
    final_list,    \* list returned by extract_final_substitutions2
    again_list,    \* list returned by a second run on final_list
    end_period,    \* value returned by day_end_period()
    filtered,      \* list returned by filter_records_by_end_period
    root,          \* the VypisSuplovaniZaka elements of the document
    settings,      \* the "settings" section of the configuration
    substitutions, \* list returned by extract_substitutions
    from_time,     \* argument of _detect_periods (minutes after midnight)
    to_time,       \* argument of _detect_periods (minutes after midnight)
    detected,      \* value returned by _detect_periods
    document,      \* the elements of the document the index is built from
    mappings,      \* the identifier index built by __init__
    absences,      \* list returned by extract_absences
    output_format, \* argument of generate
    rendered,      \* the record list generate hands to a renderer
    workers,       \* the SuplovaniZaci instances of concurrent runs
    config         \* Settings.config, the cache all runs share

vars == <<pc, heap, input, records, final_list, again_list, end_period,
          filtered, root, settings, substitutions, from_time, to_time,
          detected, document, mappings, absences, output_format, rendered,
          workers, config>>

\* The state of the index builder, of the absence extractor, of generate and
\* of concurrent runs.
laterVars ==
    <<document, mappings, absences, output_format, rendered, workers, config>>

(***************************************************************************)
(* Bounds of the model.                                                    *)
(***************************************************************************)
MaxRecords == 3
\* Longest list handed to the day-end clamp.
MaxClampRecords == 2
\* The integers a day_end_period / day_end_hour setting takes: -1 up to
\* MaxSmallEndPeriod, and the end of the whole-day range, less one, up to
\* MaxEndPeriod.
MaxSmallEndPeriod == 8
\* The times handed to the period resolver lie within Slack minutes of a
\* boundary of a catalogue period, or at the ends of the day.
Slack == 1
\* Longest list of substitution events in a document.
MaxEvents == 2
MaxEndPeriod == 100
\* Longest list of elements in a document handed to the index builder.
MaxElements == 2
\* Longest list of absence elements in a document.
MaxAbsenceElements == 2
\* Longest list of substitution events in a document handed to generate.
MaxGenerateEvents == 2
\* Longest list of substitution events in the document of a concurrent run.
MaxWorkerEvents == 2
\* Most AbsenceUcitele elements in a document of the absence-row walk.
MaxTeacherAbsences == 3
\* Longest list of substitution events in a document of the period labels.
MaxLabelEvents == 2
\* Longest list of substitution events of a run under a changing
\* configuration, and the most edits of the configuration file in a run.
MaxReloadEvents == 2
MaxConfigEdits == 1

(***************************************************************************)
(* Strings.                                                                *)
(***************************************************************************)
EmptyStr == << >>

\* str.strip(): drop the leading and the trailing whitespace.
RECURSIVE LStrip(_)
LStrip(s) ==
    IF s = << >> THEN s
    ELSE IF Head(s) = " " THEN LStrip(Tail(s)) ELSE s

RECURSIVE RStrip(_)
RStrip(s) ==
    IF s = << >> THEN s
    ELSE IF s[Len(s)] = " " THEN RStrip(SubSeq(s, 1, Len(s) - 1)) ELSE s

Strip(s) == RStrip(LStrip(s))

\* needle in hay (Python's substring test).
Contains(hay, needle) ==
    \E i \in 1..(Len(hay) - Len(needle) + 1) :
        SubSeq(hay, i, i + Len(needle) - 1) = needle

\* str.lower() on the letters the labels of the model use.
LowerChar(c) ==
    CASE c = "C" -> "c"
      [] c = "D" -> "d"
      [] OTHER -> c

Lower(s) == [i \in DOMAIN s |-> LowerChar(s[i])]

Digits == <<"0", "1", "2", "3", "4", "5", "6", "7", "8", "9">>

IsDigit(c) == \E i \in 1..10 : Digits[i] = c

DigitValue(c) == (CHOOSE i \in 1..10 : Digits[i] = c) - 1

\* int(n) of a string of digits.
RECURSIVE ParseInt(_)
ParseInt(s) ==
    IF Len(s) = 1 THEN DigitValue(s[1])
    ELSE 10 * ParseInt(SubSeq(s, 1, Len(s) - 1)) + DigitValue(s[Len(s)])

\* str(n) of a natural number.
RECURSIVE ToStr(_)
ToStr(n) ==
    IF n < 10 THEN <<Digits[n + 1]>>
    ELSE ToStr(n \div 10) \o <<Digits[(n % 10) + 1]>>

\* re.findall(r"\d+", s): the maximal runs of digits, left to right.
RECURSIVE FindDigitRuns(_, _, _)
FindDigitRuns(s, run, found) ==
    IF s = << >>
    THEN IF run = << >> THEN found ELSE Append(found, run)
    ELSE IF IsDigit(Head(s))
         THEN FindDigitRuns(Tail(s), Append(run, Head(s)), found)
         ELSE FindDigitRuns(Tail(s), << >>,
                            IF run = << >> THEN found ELSE Append(found, run))

\* str.isdigit()
IsDigitStr(s) == s # << >> /\ \A i \in DOMAIN s : IsDigit(s[i])

Min(a, b) == IF a <= b THEN a ELSE b
Max(a, b) == IF a >= b THEN a ELSE b

\* The cancellation sentinel "odpadá" and the prefix of f"za {subject}".
Odpada == <<"o", "d", "p", "a", "d", "á">>
ZaPrefix == <<"z", "a", " ">>
\* The whole-day label "celý den".
WholeDay == <<"c", "e", "l", "ý", " ", "d", "e", "n">>

(***************************************************************************)
(* Records: the dicts built by extract_substitutions.                      *)
(***************************************************************************)
Rec(class, period, subject, group, resolution, note) ==
    [Class |-> class, Period |-> period, Subject |-> subject,
     Group |-> group, Room |-> <<"R">>, Teacher |-> <<"T">>,
     Teacher_Abbreviation |-> <<"t">>, Resolution |-> resolution,
     Note |-> note]

\* rec.get("Class", ""), rec.get("Period", "")
SlotKey(r) == <<r.Class, r.Period>>

\* r.get("Resolution", "").strip() != "odpadá"
IsSubstitution(r) == Strip(r.Resolution) # Odpada

\* group == "" and resolution == "odpadá", both stripped
IsGeneralCancel(r) == Strip(r.Group) = EmptyStr /\ Strip(r.Resolution) = Odpada

(***************************************************************************)
(* extract_final_substitutions2 (grouped reconciliation).                  *)
(***************************************************************************)
\* group_records: a dict in insertion order, as a sequence of
\* [key, recs] entries; setdefault(key, []).append(rec).
RECURSIVE GroupRecordsFromConsecutive(_, _, _)
GroupRecordsFromConsecutive(h, recs, grouped) ==
    IF recs = << >> THEN grouped
    ELSE LET rec == Head(recs)
             key == SlotKey(h[rec])
             n == Len(grouped)
         IN  IF n > 0 /\ grouped[n].key = key
             THEN GroupRecordsFromConsecutive(h, Tail(recs),
                      [grouped EXCEPT ![n].recs = Append(@, rec)])
             ELSE GroupRecordsFromConsecutive(h, Tail(recs),
                      Append(grouped, [key |-> key, recs |-> <<rec>>]))

RECURSIVE group_records_from(_, _, _)
group_records_from(h, recs, grouped) ==
    IF recs = << >> THEN grouped
    ELSE LET rec == Head(recs)
             key == SlotKey(h[rec])
             at  == {i \in 1..Len(grouped) : grouped[i].key = key}
         IN  IF at = {}
             THEN group_records_from(h, Tail(recs),
                      Append(grouped, [key |-> key, recs |-> <<rec>>]))
             ELSE LET i == CHOOSE j \in at : TRUE
                  IN  group_records_from(h, Tail(recs),
                          [grouped EXCEPT ![i].recs = Append(@, rec)])

group_records(h, recs) == group_records_from(h, recs, << >>)

RECURSIVE ClassifyFromFirstCancelWins(_, _, _, _)
ClassifyFromFirstCancelWins(h, recs, general_cancel, subgroup_records) ==
    IF recs = << >>
    THEN [general_cancel |-> general_cancel,
          subgroup_records |-> subgroup_records]
    ELSE LET r == Head(recs)
         IN  IF IsGeneralCancel(h[r])
             THEN ClassifyFromFirstCancelWins(h, Tail(recs),
                      IF general_cancel = 0 THEN r ELSE general_cancel,
                      subgroup_records)
             ELSE ClassifyFromFirstCancelWins(h, Tail(recs), general_cancel,
                                              Append(subgroup_records, r))

\* classify_records: general_cancel (0 models None) is overwritten by every
\* general cancellation met; the other records are collected in order.
RECURSIVE classify_from(_, _, _, _)
classify_from(h, recs, general_cancel, subgroup_records) ==
    IF recs = << >>
    THEN [general_cancel |-> general_cancel,
          subgroup_records |-> subgroup_records]
    ELSE LET r == Head(recs)
         IN  IF IsGeneralCancel(h[r])
             THEN classify_from(h, Tail(recs), r, subgroup_records)
             ELSE classify_from(h, Tail(recs), general_cancel,
                                Append(subgroup_records, r))

classify_records(h, recs) == classify_from(h, recs, 0, << >>)

\* [r for r in subgroup_records if r.get("Resolution", "").strip() != "odpadá"]
SubstitutionsOf(h, subgroup_records) ==
    SelectSeq(subgroup_records, LAMBDA r : IsSubstitution(h[r]))

\* update_notes: the heap after the loop over subs.
UpdateNotesUnguarded(h, subs, general_cancel) ==
    IF general_cancel = 0 THEN h
    ELSE LET cancellation_subject == Strip(h[general_cancel].Subject)
         IN  [i \in DOMAIN h |->
                 IF (\E k \in 1..Len(subs) : subs[k] = i)
                    /\ Strip(h[i].Note) = EmptyStr
                 THEN [h[i] EXCEPT !.Note = ZaPrefix \o cancellation_subject]
                 ELSE h[i]]

UpdateNotesRawSubject(h, subs, general_cancel) ==
    IF general_cancel = 0 THEN h
    ELSE LET cancellation_subject == h[general_cancel].Subject
         IN  [i \in DOMAIN h |->
                 IF (\E k \in 1..Len(subs) : subs[k] = i)
                    /\ Strip(h[i].Note) = EmptyStr
                    /\ cancellation_subject # EmptyStr
                 THEN [h[i] EXCEPT !.Note = ZaPrefix \o cancellation_subject]
                 ELSE h[i]]

UpdateNotesAlsoOnCancel(h, subs, general_cancel) ==
    IF general_cancel = 0 THEN h
    ELSE LET cancellation_subject == Strip(h[general_cancel].Subject)
         IN  [i \in DOMAIN h |->
                 IF ((\E k \in 1..Len(subs) : subs[k] = i)
                     \/ i = general_cancel)
                    /\ Strip(h[i].Note) = EmptyStr
                    /\ cancellation_subject # EmptyStr
                 THEN [h[i] EXCEPT !.Note = ZaPrefix \o cancellation_subject]
                 ELSE h[i]]

update_notes(h, subs, general_cancel) ==
    IF general_cancel = 0 THEN h
    ELSE LET cancellation_subject == Strip(h[general_cancel].Subject)
         IN  [i \in DOMAIN h |->
                 IF (\E k \in 1..Len(subs) : subs[k] = i)
                    /\ Strip(h[i].Note) = EmptyStr
                    /\ cancellation_subject # EmptyStr
                 THEN [h[i] EXCEPT !.Note = ZaPrefix \o cancellation_subject]
                 ELSE h[i]]

\* One iteration of "for _, recs in grouped_records.items()": the state
\* (heap, final_list) after the group recs.
ReconcileGroupKeepCancel(st, recs) ==
    LET c    == classify_records(st.heap, recs)
        subs == SubstitutionsOf(st.heap, c.subgroup_records)
    IN  IF subs # << >>
        THEN [heap |-> update_notes(st.heap, subs, c.general_cancel),
              list |-> st.list \o
                       (IF c.general_cancel # 0
                        THEN <<c.general_cancel>> ELSE << >>) \o subs]
        ELSE IF c.general_cancel # 0
        THEN [heap |-> st.heap, list |-> Append(st.list, c.general_cancel)]
        ELSE [heap |-> st.heap, list |-> st.list \o recs]

ReconcileGroupPrepend(st, recs) ==
    LET c    == classify_records(st.heap, recs)
        subs == SubstitutionsOf(st.heap, c.subgroup_records)
    IN  IF subs # << >>
        THEN [heap |-> update_notes(st.heap, subs, c.general_cancel),
              list |-> subs \o st.list]
        ELSE IF c.general_cancel # 0
        THEN [heap |-> st.heap, list |-> <<c.general_cancel>> \o st.list]
        ELSE [heap |-> st.heap, list |-> recs \o st.list]

ReconcileGroupDropUnresolved(st, recs) ==
    LET c    == classify_records(st.heap, recs)
        subs == SubstitutionsOf(st.heap, c.subgroup_records)
    IN  IF subs # << >>
        THEN [heap |-> update_notes(st.heap, subs, c.general_cancel),
              list |-> st.list \o subs]
        ELSE IF c.general_cancel # 0
        THEN [heap |-> st.heap, list |-> Append(st.list, c.general_cancel)]
        ELSE st

ReconcileGroup(st, recs) ==
    LET c    == classify_records(st.heap, recs)
        subs == SubstitutionsOf(st.heap, c.subgroup_records)
    IN  IF subs # << >>
        THEN [heap |-> update_notes(st.heap, subs, c.general_cancel),
              list |-> st.list \o subs]
        ELSE IF c.general_cancel # 0
        THEN [heap |-> st.heap, list |-> Append(st.list, c.general_cancel)]
        ELSE [heap |-> st.heap, list |-> st.list \o recs]

RECURSIVE reconcile_groups(_, _)
reconcile_groups(st, grouped) ==
    IF grouped = << >> THEN st
    ELSE reconcile_groups(ReconcileGroup(st, Head(grouped).recs),
                          Tail(grouped))

\* The whole call: the heap it leaves and the list it returns.
extract_final_substitutions2(h, recs) ==
    reconcile_groups([heap |-> h, list |-> << >>], group_records(h, recs))

(***************************************************************************)
(* extract_final_substitutions (the order-sensitive reconciliation).       *)
(***************************************************************************)
\* (rec.get("Class", ""), rec.get("Period", ""), rec.get("Group", ""))
LegacyKey(r) == <<r.Class, r.Period, r.Group>>

\* One iteration of the loop over records: st is the heap and the dict
\* final_records, a sequence of [key, rec] entries in insertion order; an
\* assignment to a key the dict holds keeps the position of the entry.
LegacyStepLastWins(st, rec) ==
    LET key == LegacyKey(st.heap[rec])
        at  == {i \in 1..Len(st.final_records) : st.final_records[i].key = key}
    IN  IF at = {}
        THEN [st EXCEPT !.final_records =
                            Append(@, [key |-> key, rec |-> rec])]
        ELSE LET i == CHOOSE j \in at : TRUE
                 existing == st.final_records[i].rec
             IN  IF IsSubstitution(st.heap[rec])
                 THEN [heap |->
                           IF Strip(st.heap[rec].Note) = EmptyStr
                              /\ ~ IsSubstitution(st.heap[existing])
                              /\ Strip(st.heap[existing].Subject) # EmptyStr
                           THEN [st.heap EXCEPT ![rec].Note =
                                    ZaPrefix \o Strip(st.heap[existing].Subject)]
                           ELSE st.heap,
                       final_records |->
                           [st.final_records EXCEPT ![i].rec = rec]]
                 ELSE st

LegacyStep(st, rec) ==
    LET key == LegacyKey(st.heap[rec])
        at  == {i \in 1..Len(st.final_records) : st.final_records[i].key = key}
    IN  IF at = {}
        THEN [st EXCEPT !.final_records =
                            Append(@, [key |-> key, rec |-> rec])]
        ELSE LET i == CHOOSE j \in at : TRUE
                 existing == st.final_records[i].rec
             IN  IF IsSubstitution(st.heap[rec])
                    /\ ~ IsSubstitution(st.heap[existing])
                 THEN [heap |->
                           IF Strip(st.heap[rec].Note) = EmptyStr
                              /\ Strip(st.heap[existing].Subject) # EmptyStr
                           THEN [st.heap EXCEPT ![rec].Note =
                                    ZaPrefix \o Strip(st.heap[existing].Subject)]
                           ELSE st.heap,
                       final_records |->
                           [st.final_records EXCEPT ![i].rec = rec]]
                 ELSE st

RECURSIVE legacy_from(_, _)
legacy_from(st, recs) ==
    IF recs = << >> THEN st
    ELSE legacy_from(LegacyStep(st, Head(recs)), Tail(recs))

\* The whole call: the heap it leaves and list(final_records.values()).
extract_final_substitutions(h, recs) ==
    LET st == legacy_from([heap |-> h, final_records |-> << >>], recs)
    IN  [heap |-> st.heap,
         list |-> [i \in DOMAIN st.final_records |-> st.final_records[i].rec]]

(***************************************************************************)
(* Configuration values, with the Python type the YAML loader gives them.  *)
(***************************************************************************)
NoneVal == [type |-> "NoneType"]
IntVal(n) == [type |-> "int", value |-> n]
BoolVal(b) == [type |-> "bool", value |-> b]
StrVal(s) == [type |-> "str", value |-> s]
FloatVal == [type |-> "float"]

\* The number a returned end period compares as (True compares as 1).
NumberOf(v) == IF v.type = "bool" THEN 1 ELSE v.value

\* str(v) inside the f-string of the clamp.
FormatValue(v) ==
    IF v.type = "bool" THEN <<"T", "r", "u", "e">> ELSE ToStr(v.value)

\* day_end_period(): the last period to include, or None.
day_end_period(st) ==
    LET raw == IF st.day_end_period = NoneVal
               THEN st.day_end_hour ELSE st.day_end_period
    IN  CASE raw = NoneVal -> NoneVal
          [] raw.type = "int" -> IF raw.value > 0 THEN raw ELSE NoneVal
          [] raw.type = "bool" -> IF raw.value THEN raw ELSE NoneVal
          [] raw.type = "str" ->
                LET stripped == Strip(raw.value)
                IN  IF stripped = EmptyStr THEN NoneVal
                    ELSE IF IsDigitStr(stripped)
                         THEN IF ParseInt(stripped) > 0
                              THEN IntVal(ParseInt(stripped)) ELSE NoneVal
                         ELSE NoneVal
          [] OTHER -> NoneVal

(***************************************************************************)
(* The day-end clamp.                                                      *)
(***************************************************************************)
\* The end _parse_period_range gives the whole-day label.
WholeDayEnd == 99

\* _parse_period_range: << >> models None, <<start, end>> the tuple.
_parse_period_range(period_text) ==
    IF period_text = EmptyStr THEN << >>
    ELSE LET normalized == Lower(Strip(period_text))
         IN  IF normalized = EmptyStr THEN << >>
             ELSE IF Contains(normalized, <<"c", "e", "l">>)
                     /\ Contains(normalized, <<"d", "e", "n">>)
             THEN <<1, WholeDayEnd>>
             ELSE LET runs == FindDigitRuns(normalized, << >>, << >>)
                      nums == [i \in DOMAIN runs |-> ParseInt(runs[i])]
                  IN  IF nums = << >> THEN << >>
                      ELSE IF Len(nums) = 1 THEN <<nums[1], nums[1]>>
                      ELSE <<Min(nums[1], nums[2]), Max(nums[1], nums[2])>>

\* str(start) if start == end_period else f"{start}-{end_period}"
ClampedLabelAlwaysRange(start, m) == ToStr(start) \o <<"-">> \o FormatValue(m)

ClampedLabel(start, m) ==
    IF start = NumberOf(m) THEN ToStr(start)
    ELSE ToStr(start) \o <<"-">> \o FormatValue(m)

\* if start > end_period: continue
StartsAtOrAfterEnd(start, m) == start >= NumberOf(m)

StartsAfterEnd(start, m) == start > NumberOf(m)

\* The loop of filter_records_by_end_period: st is the heap and the list
\* `filtered` so far; a relabelled record is a new dict, dict(rec).
RECURSIVE FilterFromDropUnparsed(_, _, _)
FilterFromDropUnparsed(st, recs, m) ==
    IF recs = << >> THEN st
    ELSE LET rec    == Head(recs)
             parsed == _parse_period_range(st.heap[rec].Period)
         IN  IF parsed = << >>
             THEN FilterFromDropUnparsed(st, Tail(recs), m)
             ELSE IF StartsAfterEnd(parsed[1], m)
             THEN FilterFromDropUnparsed(st, Tail(recs), m)
             ELSE IF parsed[2] > NumberOf(m)
             THEN LET copy == [st.heap[rec] EXCEPT
                                  !.Period = ClampedLabel(parsed[1], m)]
                  IN  FilterFromDropUnparsed(
                          [heap |-> Append(st.heap, copy),
                           list |-> Append(st.list, Len(st.heap) + 1)],
                          Tail(recs), m)
             ELSE FilterFromDropUnparsed([st EXCEPT !.list = Append(@, rec)],
                                         Tail(recs), m)

RECURSIVE FilterFromInPlace(_, _, _)
FilterFromInPlace(st, recs, m) ==
    IF recs = << >> THEN st
    ELSE LET rec    == Head(recs)
             parsed == _parse_period_range(st.heap[rec].Period)
         IN  IF parsed = << >>
             THEN FilterFromInPlace([st EXCEPT !.list = Append(@, rec)],
                                    Tail(recs), m)
             ELSE IF StartsAfterEnd(parsed[1], m)
             THEN FilterFromInPlace(st, Tail(recs), m)
             ELSE IF parsed[2] > NumberOf(m)
             THEN FilterFromInPlace(
                      [heap |-> [st.heap EXCEPT ![rec].Period =
                                    ClampedLabel(parsed[1], m)],
                       list |-> Append(st.list, rec)],
                      Tail(recs), m)
             ELSE FilterFromInPlace([st EXCEPT !.list = Append(@, rec)],
                                    Tail(recs), m)

RECURSIVE filter_from(_, _, _)
filter_from(st, recs, m) ==
    IF recs = << >> THEN st
    ELSE LET rec    == Head(recs)
             parsed == _parse_period_range(st.heap[rec].Period)
         IN  IF parsed = << >>
             THEN filter_from([st EXCEPT !.list = Append(@, rec)],
                              Tail(recs), m)
             ELSE IF StartsAfterEnd(parsed[1], m)
             THEN filter_from(st, Tail(recs), m)
             ELSE IF parsed[2] > NumberOf(m)
             THEN LET copy == [st.heap[rec] EXCEPT
                                  !.Period = ClampedLabel(parsed[1], m)]
                  IN  filter_from([heap |-> Append(st.heap, copy),
                                   list |-> Append(st.list,
                                                   Len(st.heap) + 1)],
                                  Tail(recs), m)
             ELSE filter_from([st EXCEPT !.list = Append(@, rec)],
                              Tail(recs), m)

\* The whole call, after end_period = self.day_end_period().
filter_records_by_end_period(h, recs, m) ==
    IF m = NoneVal THEN [heap |-> h, list |-> recs]
    ELSE filter_from([heap |-> h, list |-> << >>], recs, m)

(***************************************************************************)
(* SchoolSchedule: the period resolver.  A time of day is its number of    *)
(* minutes after midnight: the catalogue's times are whole minutes, and a  *)
(* time with seconds compares with them as the next whole minute does or   *)
(* as the same minute does.                                                *)
(***************************************************************************)
\* datetime.time(h, m)
Time(h, m) == 60 * h + m

Midnight == Time(0, 0)

\* self.periods, in insertion order.
periods ==
    << [name |-> <<"1">>, start |-> Time(7, 55),  end |-> Time(8, 40)],
       [name |-> <<"2">>, start |-> Time(8, 45),  end |-> Time(9, 30)],
       [name |-> <<"3">>, start |-> Time(9, 35),  end |-> Time(10, 20)],
       [name |-> <<"4">>, start |-> Time(10, 30), end |-> Time(11, 15)],
       [name |-> <<"5">>, start |-> Time(11, 35), end |-> Time(12, 20)],
       [name |-> <<"6">>, start |-> Time(12, 25), end |-> Time(13, 10)],
       [name |-> <<"7">>, start |-> Time(13, 15), end |-> Time(14, 0)],
       [name |-> <<"8">>, start |-> Time(14, 5),  end |-> Time(14, 50)] >>

\* list(self.periods.keys())
PeriodNames == [i \in DOMAIN periods |-> periods[i].name]

\* len(detected_periods) >= 7
WholeDayThreshold == 7

\* from_time <= end_time and to_time >= start_time
OverlapsStrict(from, to, p) == from < p.end /\ to > p.start

Overlaps(from, to, p) == from <= p.end /\ to >= p.start

\* The loop over self.periods.items(): the names appended so far.
RECURSIVE detect_from(_, _, _, _)
detect_from(from, to, rest, detected_periods) ==
    IF rest = << >> THEN detected_periods
    ELSE detect_from(from, to, Tail(rest),
             IF Overlaps(from, to, Head(rest))
             THEN Append(detected_periods, Head(rest).name)
             ELSE detected_periods)

\* The textual representation of a non-empty list of detected periods.
PeriodRangeNoSingle(detected_periods) ==
    IF detected_periods = PeriodNames
       \/ Len(detected_periods) >= WholeDayThreshold
    THEN WholeDay
    ELSE detected_periods[1] \o <<"-">>
             \o detected_periods[Len(detected_periods)]

PeriodRangeNoWholeDay(detected_periods) ==
    IF detected_periods[1] = detected_periods[Len(detected_periods)]
    THEN detected_periods[1]
    ELSE detected_periods[1] \o <<"-">>
             \o detected_periods[Len(detected_periods)]

PeriodRange(detected_periods) ==
    IF detected_periods = PeriodNames
       \/ Len(detected_periods) >= WholeDayThreshold
    THEN WholeDay
    ELSE IF detected_periods[1] = detected_periods[Len(detected_periods)]
    THEN detected_periods[1]
    ELSE detected_periods[1] \o <<"-">>
             \o detected_periods[Len(detected_periods)]

\* _detect_periods: the tuple (detected_periods, period_range).
DetectPeriodsNoMidnight(from, to) ==
    LET detected_periods == detect_from(from, to, periods, << >>)
    IN  IF detected_periods # << >>
        THEN <<detected_periods, PeriodRange(detected_periods)>>
        ELSE <<<< >>, EmptyStr>>

DetectPeriodsNoHitWholeDay(from, to) ==
    LET detected_periods == detect_from(from, to, periods, << >>)
    IN  IF detected_periods # << >>
        THEN <<detected_periods, PeriodRange(detected_periods)>>
        ELSE <<<< >>, WholeDay>>

_detect_periods(from, to) ==
    LET detected_periods == detect_from(from, to, periods, << >>)
    IN  IF from = Midnight /\ to = Midnight
        THEN <<detected_periods, WholeDay>>
        ELSE IF detected_periods # << >>
        THEN <<detected_periods, PeriodRange(detected_periods)>>
        ELSE <<<< >>, EmptyStr>>

(***************************************************************************)
(* extract_substitutions: the record extractor.                            *)
(***************************************************************************)
\* dict.get(key, default)
Get(mapping, key, default) ==
    IF key \in DOMAIN mapping THEN mapping[key] ELSE default

\* ", ".join(parts)
RECURSIVE Join(_)
Join(parts) ==
    IF parts = << >> THEN EmptyStr
    ELSE IF Len(parts) = 1 THEN parts[1]
    ELSE parts[1] \o <<",", " ">> \o Join(Tail(parts))

\* A CasOd / CasDo text: an ISO date-time with its time of day, or a text
\* datetime.fromisoformat rejects (an empty or malformed one).
IsoTime(t) == [iso |-> TRUE, time |-> t]
NotIso == [iso |-> FALSE]

\* SchoolSchedule.from_iso: the value of _detect_periods, or << >> when
\* datetime.fromisoformat raises ValueError.
from_iso(from_iso_str, to_iso_str) ==
    IF from_iso_str.iso /\ to_iso_str.iso
    THEN _detect_periods(from_iso_str.time, to_iso_str.time)
    ELSE << >>

\* classes_to_include(), classes_to_exclude()
classes_to_include(st) == st.include
classes_to_exclude(st) == st.exclude

\* The decision `write` of extract_substitutions for a record of class_name.
WriteExcludeFirst(st, class_name) ==
    IF Cardinality(classes_to_exclude(st)) > 0
    THEN class_name \notin classes_to_exclude(st)
    ELSE IF Cardinality(classes_to_include(st)) > 0
    THEN class_name \in classes_to_include(st)
    ELSE TRUE

Write(st, class_name) ==
    IF Cardinality(classes_to_include(st)) > 0
    THEN class_name \in classes_to_include(st)
    ELSE IF Cardinality(classes_to_exclude(st)) > 0
    THEN class_name \notin classes_to_exclude(st)
    ELSE TRUE

\* The class name extract_substitutions resolves for an event.
ClassNameOf(index, record) ==
    LET group_id == Get(index.event_group_mapping, record.UDALOST_ID, "")
    IN  Get(index.group_mapping, group_id,
            [class |-> EmptyStr, group |-> EmptyStr]).class

\* if period != period_range: period = period_range
PreferStaticPeriod(period, period_range) ==
    IF period # EmptyStr THEN period ELSE period_range

PreferredPeriod(period, period_range) ==
    IF period # period_range THEN period_range ELSE period

\* The dict extract_substitutions builds for one VypisSuplovaniZaka element
\* whose times parse.
BuildRecord(index, record) ==
    LET event_id   == record.UDALOST_ID
        group_id   == Get(index.event_group_mapping, event_id, "")
        names      == Get(index.group_mapping, group_id,
                          [class |-> EmptyStr, group |-> EmptyStr])
        class_name == names.class
        group_name == IF names.group = class_name THEN EmptyStr
                      ELSE names.group
        static     == Get(index.period_mapping, record.OBDOBI_DNE_ID, EmptyStr)
        period_range == from_iso(record.CasOd, record.CasDo)[2]
        period     == PreferredPeriod(static, period_range)
        subject    == Get(index.subject_mapping, record.REALIZACE_ID, EmptyStr)
        rooms      == Get(index.event_room_mapping, event_id, <<EmptyStr>>)
        osoba_ids  == Get(index.event_teacher_mapping, event_id, << >>)
        teachers_info ==
            [i \in DOMAIN osoba_ids |->
                Get(index.teacher_mapping, osoba_ids[i],
                    [abbreviation |-> EmptyStr, name |-> EmptyStr])]
        with_name == SelectSeq(teachers_info, LAMBDA t : t.name # EmptyStr)
        with_abbr == SelectSeq(teachers_info,
                               LAMBDA t : t.abbreviation # EmptyStr)
    IN  [Class |-> class_name,
         Period |-> period,
         Subject |-> subject,
         Group |-> group_name,
         Room |-> Join(rooms),
         Teacher |-> Join([i \in DOMAIN with_name |-> with_name[i].name]),
         Teacher_Abbreviation |->
             Join([i \in DOMAIN with_abbr |-> with_abbr[i].abbreviation]),
         Resolution |-> record.ZpusobReseni,
         Note |-> record.Poznamka]

\* The loop over self.root.findall(".//VypisSuplovaniZaka"): out is the list
\* of dicts appended so far; the loop ends early when from_iso raises.
RECURSIVE ExtractFromSkipMalformed(_, _, _, _)
ExtractFromSkipMalformed(index, st, rest, out) ==
    IF rest = << >> THEN [raised |-> FALSE, list |-> out]
    ELSE LET record == Head(rest)
         IN  ExtractFromSkipMalformed(index, st, Tail(rest),
                 IF from_iso(record.CasOd, record.CasDo) # << >>
                    /\ Write(st, ClassNameOf(index, record))
                 THEN Append(out, BuildRecord(index, record))
                 ELSE out)

RECURSIVE extract_from(_, _, _, _)
extract_from(index, st, rest, out) ==
    IF rest = << >> THEN [raised |-> FALSE, list |-> out]
    ELSE LET record == Head(rest)
         IN  IF from_iso(record.CasOd, record.CasDo) = << >>
             THEN [raised |-> TRUE, list |-> << >>]
             ELSE extract_from(index, st, Tail(rest),
                      IF Write(st, ClassNameOf(index, record))
                      THEN Append(out, BuildRecord(index, record))
                      ELSE out)

extract_substitutions(index, st, elements) ==
    extract_from(index, st, elements, << >>)

(***************************************************************************)
(* The identifier index: the mappings SuplovaniBase.__init__ and           *)
(* SuplovaniZaci.__init__ build from the elements of the document.  An     *)
(* element is its tag and the text of each child it has; a child the       *)
(* element lacks is outside the domain of `child` (find returns None).     *)
(***************************************************************************)
Element(tag, children) == [tag |-> tag, child |-> children]

\* self.root.findall(".//" + tag), in document order.
findall(doc, tag) == SelectSeq(doc, LAMBDA el : el.tag = tag)

\* element.find(key) is not None
Has(el, key) == key \in DOMAIN el.child

\* element.find(key).text
Text(el, key) == el.child[key]

\* mapping[key] = value
Put(mapping, key, value) ==
    [k \in (DOMAIN mapping) \cup {key} |->
        IF k = key THEN value ELSE mapping[k]]

\* {e.find(id).text: e.find(value).text for e in elems
\*      if e.find(id) is not None and e.find(value) is not None}
RECURSIVE PairMapping(_, _, _, _)
PairMapping(elems, id, value, mapping) ==
    IF elems = << >> THEN mapping
    ELSE LET el == Head(elems)
         IN  PairMapping(Tail(elems), id, value,
                 IF Has(el, id) /\ Has(el, value)
                 THEN Put(mapping, Text(el, id), Text(el, value))
                 ELSE mapping)

\* _extract_date: "none" when the document has no Kalendar/Datum, "raised"
\* when datetime.fromisoformat rejects its text.
_extract_date(doc) ==
    LET found == findall(doc, "Datum")
    IN  IF found = << >> THEN "none"
        ELSE IF Text(found[1], "text").iso THEN "date" ELSE "raised"

_extract_subjects(doc) ==
    PairMapping(findall(doc, "Predmet"), "REALIZACE_ID", "Zkratka", << >>)

_extract_classrooms(doc) ==
    PairMapping(findall(doc, "Mistnost"), "MISTNOST_ID", "Zkratka", << >>)

\* _extract_periods: a period with differing HodinaOd and HodinaDo is named
\* by the range.
RECURSIVE extract_periods_from(_, _)
extract_periods_from(elems, mapping) ==
    IF elems = << >> THEN mapping
    ELSE LET period == Head(elems)
             period_name ==
                 IF Has(period, "HodinaOd") /\ Has(period, "HodinaDo")
                    /\ Text(period, "HodinaOd") # Text(period, "HodinaDo")
                 THEN Text(period, "HodinaOd") \o <<"-">>
                          \o Text(period, "HodinaDo")
                 ELSE Text(period, "Nazev")
         IN  extract_periods_from(Tail(elems),
                 IF Has(period, "OBDOBI_DNE_ID") /\ Has(period, "Nazev")
                 THEN Put(mapping, Text(period, "OBDOBI_DNE_ID"), period_name)
                 ELSE mapping)

_extract_periods(doc) ==
    extract_periods_from(findall(doc, "VyucovaciHodinaOd"), << >>)

RECURSIVE extract_teachers_from(_, _)
extract_teachers_from(elems, mapping) ==
    IF elems = << >> THEN mapping
    ELSE LET teacher == Head(elems)
         IN  extract_teachers_from(Tail(elems),
                 IF Has(teacher, "OSOBA_ID") /\ Has(teacher, "Zkratka")
                    /\ Has(teacher, "Jmeno") /\ Has(teacher, "Prijmeni")
                 THEN Put(mapping, Text(teacher, "OSOBA_ID"),
                          [abbreviation |-> Text(teacher, "Zkratka"),
                           name |-> Text(teacher, "Jmeno") \o <<" ">>
                                        \o Text(teacher, "Prijmeni")])
                 ELSE mapping)

_extract_teachers(doc) ==
    extract_teachers_from(findall(doc, "Ucitel2") \o findall(doc, "Ucitel"),
                          << >>)

_extract_classes(doc) ==
    PairMapping(findall(doc, "Trida"), "SKUPINA_ID", "Nazev", << >>)

RECURSIVE extract_groups_from(_, _, _)
extract_groups_from(elems, class_mapping, mapping) ==
    IF elems = << >> THEN mapping
    ELSE LET group == Head(elems)
         IN  extract_groups_from(Tail(elems), class_mapping,
                 IF Has(group, "SKUPINA_ID") /\ Has(group, "SKUPINA_ID_PARENT")
                 THEN Put(mapping, Text(group, "SKUPINA_ID"),
                          [class |-> Get(class_mapping,
                                         Text(group, "SKUPINA_ID_PARENT"),
                                         EmptyStr),
                           group |-> IF Has(group, "Nazev")
                                     THEN Text(group, "Nazev") ELSE EmptyStr])
                 ELSE mapping)

_extract_groups(doc, class_mapping) ==
    extract_groups_from(findall(doc, "TridaSkupinaSeminar"), class_mapping,
                        << >>)

_extract_event_group_mappings(doc) ==
    PairMapping(findall(doc, "UdalostStudijniSkupina"), "UDALOST_ID",
                "SKUPINA_ID", << >>)

\* mappings[event_id].append(...), after "if event_id not in mappings".
AppendTo(mapping, key, value) ==
    Put(mapping, key, Append(Get(mapping, key, << >>), value))

RECURSIVE extract_event_rooms_from(_, _, _)
extract_event_rooms_from(elems, room_mapping, mapping) ==
    IF elems = << >> THEN mapping
    ELSE LET event == Head(elems)
         IN  extract_event_rooms_from(Tail(elems), room_mapping,
                 IF Has(event, "UDALOST_ID") /\ Has(event, "MISTNOST_ID")
                 THEN AppendTo(mapping, Text(event, "UDALOST_ID"),
                               Get(room_mapping, Text(event, "MISTNOST_ID"),
                                   EmptyStr))
                 ELSE mapping)

_extract_event_room_mappings(doc, room_mapping) ==
    extract_event_rooms_from(findall(doc, "UdalostMistnost"), room_mapping,
                             << >>)

RECURSIVE extract_event_teachers_from(_, _)
extract_event_teachers_from(elems, mapping) ==
    IF elems = << >> THEN mapping
    ELSE LET event == Head(elems)
         IN  extract_event_teachers_from(Tail(elems),
                 IF Has(event, "UDALOST_ID") /\ Has(event, "OSOBA_ID")
                 THEN AppendTo(mapping, Text(event, "UDALOST_ID"),
                               Text(event, "OSOBA_ID"))
                 ELSE mapping)

_extract_event_teacher_mappings(doc) ==
    extract_event_teachers_from(findall(doc, "UdalostOsoba"), << >>)

\* _extract_absence_reasons: the comprehension has no condition, so .text
\* of a child the element lacks raises AttributeError.
AbsenceReasonsRaise(doc) ==
    \E k \in DOMAIN findall(doc, "SuplovaniDruhAbsence") :
        LET absence == findall(doc, "SuplovaniDruhAbsence")[k]
        IN  ~ Has(absence, "SUPL_DRUH_ABSENCE_ID") \/ ~ Has(absence, "Nazev")

_extract_absence_reasons(doc) ==
    PairMapping(findall(doc, "SuplovaniDruhAbsence"), "SUPL_DRUH_ABSENCE_ID",
                "Nazev", << >>)

\* SuplovaniZaci(xml_file, settings): the attributes of the new instance, or
\* the exception the constructor raises.
SuplovaniZaci(doc) ==
    IF _extract_date(doc) = "raised"
    THEN [built |-> FALSE, raised |-> "ValueError"]
    ELSE IF AbsenceReasonsRaise(doc)
    THEN [built |-> FALSE, raised |-> "AttributeError"]
    ELSE LET room_mapping == _extract_classrooms(doc)
             class_mapping == _extract_classes(doc)
         IN  [built |-> TRUE,
              subject_mapping |-> _extract_subjects(doc),
              room_mapping |-> room_mapping,
              period_mapping |-> _extract_periods(doc),
              teacher_mapping |-> _extract_teachers(doc),
              class_mapping |-> class_mapping,
              group_mapping |-> _extract_groups(doc, class_mapping),
              event_group_mapping |-> _extract_event_group_mappings(doc),
              event_room_mapping |->
                  _extract_event_room_mappings(doc, room_mapping),
              event_teacher_mapping |-> _extract_event_teacher_mappings(doc),
              absence_reason_mapping |-> _extract_absence_reasons(doc)]

(***************************************************************************)
(* extract_absences: the absence extractor.                                *)
(***************************************************************************)
\* The defaults of the lookups, "Neznámý důvod" and "Neznámý učitel" (their
\* letters u-with-ring and c-with-caron are written u and c).
UnknownReason ==
    <<"N", "e", "z", "n", "á", "m", "ý", " ", "d", "u", "v", "o", "d">>
UnknownTeacher ==
    <<"N", "e", "z", "n", "á", "m", "ý", " ", "u", "c", "i", "t", "e", "l">>

\* str.upper() on the letters the abbreviations of the model use.
UpperChar(c) ==
    CASE c = "k" -> "K"
      [] c = "o" -> "O"
      [] c = "p" -> "P"
      [] OTHER -> c

Upper(s) == [i \in DOMAIN s |-> UpperChar(s[i])]

\* The abbreviations of the staff left out of the absences.
Assistants == {<<"K", "O", "P">>, <<"H", "R", "N">>, <<"H", "E", "I">>}

\* strftime("%H:%M") of a time of day.
Pad2(n) == IF n < 10 THEN <<"0">> \o ToStr(n) ELSE ToStr(n)
HourMinute(t) == Pad2(t \div 60) \o <<":">> \o Pad2(t % 60)

\* super().get(absence, key): the text of the child, "" when it is missing.
TimeText(el, key) == IF Has(el, key) THEN Text(el, key) ELSE NotIso

\* The body of the inner loop for one AbsenceZdrojeVeDni element and one
\* AbsenceUcitele element: the pair is skipped, or a row is appended, or an
\* exception is raised.
AbsenceRow(index, absence, teacher_absence) ==
    LET reason_id == IF Has(absence, "SUPL_DRUH_ABSENCE_ID")
                     THEN Text(absence, "SUPL_DRUH_ABSENCE_ID") ELSE ""
        reason == Get(index.absence_reason_mapping, reason_id, UnknownReason)
        related == /\ Has(absence, "UDALOST_ID")
                   /\ Has(teacher_absence, "UDALOST_ID")
                   /\ Text(absence, "UDALOST_ID")
                          = Text(teacher_absence, "UDALOST_ID")
        teacher_info == Get(index.teacher_mapping,
                            Text(teacher_absence, "OSOBA_ID"),
                            [name |-> UnknownTeacher])
        od == TimeText(absence, "Od")
        do == TimeText(absence, "Do")
    IN  IF ~ related THEN [kind |-> "skip"]
        ELSE IF ~ Has(teacher_absence, "OSOBA_ID") THEN [kind |-> "skip"]
        ELSE IF "abbreviation" \notin DOMAIN teacher_info
        THEN [kind |-> "raise", error |-> "AttributeError"]
        ELSE IF Upper(teacher_info.abbreviation) \in Assistants
        THEN [kind |-> "skip"]
        ELSE IF from_iso(od, do) = << >>
        THEN [kind |-> "raise", error |-> "ValueError"]
        ELSE [kind |-> "row",
              row |-> [Teacher |-> teacher_info.name,
                       Reason |-> reason,
                       From |-> HourMinute(od.time),
                       To |-> HourMinute(do.time),
                       Periods |-> from_iso(od, do)[2]]]

RECURSIVE AbsencesFromStopAtMissingId(_, _, _, _, _)
AbsencesFromStopAtMissingId(index, outer, inner, all_inner, out) ==
    IF outer = << >> THEN out
    ELSE IF inner = << >>
    THEN AbsencesFromStopAtMissingId(index, Tail(outer), all_inner,
                                     all_inner, out)
    ELSE LET r == AbsenceRow(index, Head(outer), Head(inner))
         IN  IF r.kind = "raise" THEN [raised |-> r.error, list |-> << >>]
             ELSE IF r.kind = "skip" /\ ~ Has(Head(inner), "OSOBA_ID")
             THEN out
             ELSE AbsencesFromStopAtMissingId(index, outer, Tail(inner),
                      all_inner,
                      IF r.kind = "row"
                      THEN [out EXCEPT !.list = Append(@, r.row)]
                      ELSE out)

\* The two nested loops, over the pairs in the order the code visits them:
\* out is the list so far, or the exception that ended the call.
RECURSIVE absences_from(_, _, _, _, _)
absences_from(index, outer, inner, all_inner, out) ==
    IF outer = << >> THEN out
    ELSE IF inner = << >>
    THEN absences_from(index, Tail(outer), all_inner, all_inner, out)
    ELSE LET r == AbsenceRow(index, Head(outer), Head(inner))
         IN  IF r.kind = "raise" THEN [raised |-> r.error, list |-> << >>]
             ELSE absences_from(index, outer, Tail(inner), all_inner,
                      IF r.kind = "row"
                      THEN [out EXCEPT !.list = Append(@, r.row)]
                      ELSE out)

extract_absences(index, doc) ==
    absences_from(index, findall(doc, "AbsenceZdrojeVeDni"),
                  findall(doc, "AbsenceUcitele"),
                  findall(doc, "AbsenceUcitele"),
                  [raised |-> "", list |-> << >>])

(***************************************************************************)
(* Inputs of the reconciliation: records of three slots, with blank and    *)
(* padded strings as the XML text may carry them.                          *)
(***************************************************************************)
C3A == <<"3", "A">>
C3B == <<"3", "B">>
P3 == <<"3">>
P4 == <<"4">>
Supl == <<"s">>
PaddedOdpada == <<" ">> \o Odpada \o <<" ">>

SlotSamples(class, period) ==
    {Rec(class, period, subj, EmptyStr, Odpada, EmptyStr) :
        subj \in {EmptyStr, <<"M">>, <<" ", "F", " ">>, <<" ">>}}
    \cup {Rec(class, period, <<"M">>, <<" ">>, PaddedOdpada, EmptyStr)}
    \cup {Rec(class, period, <<"D">>, g, Supl, n) :
        g \in {EmptyStr, <<"S">>}, n \in {EmptyStr, <<"x">>}}
    \cup {Rec(class, period, <<"D">>, <<"S">>, Supl, <<" ">>)}
    \cup {Rec(class, period, <<"M">>, <<"S">>, Odpada, EmptyStr)}

ReconcileSamples ==
    SlotSamples(C3A, P3)
    \cup {Rec(C3A, P4, <<"M">>, EmptyStr, Odpada, EmptyStr),
          Rec(C3A, P4, EmptyStr, EmptyStr, Odpada, EmptyStr),
          Rec(C3A, P4, <<"D">>, <<"S">>, Supl, EmptyStr),
          Rec(C3A, P4, <<"M">>, <<"S">>, Odpada, EmptyStr)}
    \cup {Rec(C3B, P3, <<"M">>, EmptyStr, Odpada, EmptyStr),
          Rec(C3B, P3, <<"D">>, <<"S">>, Supl, EmptyStr)}

\* The list <<1, ..., n>>: every object of the heap once, in order.
Ids(n) == [i \in 1..n |-> i]

\* A settings section with no key set: get(key, default) gives the default.
IdleSettings ==
    [include |-> {}, exclude |-> {},
     day_end_period |-> NoneVal, day_end_hour |-> NoneVal]

\* No document loaded, no index built, nothing generated, no concurrent run.
NoIndex == [built |-> FALSE]
NoConfig == [loaded |-> FALSE]

LaterIdle ==
    /\ document = << >>
    /\ mappings = NoIndex
    /\ absences = << >>
    /\ output_format = ""
    /\ rendered = << >>
    /\ workers = << >>
    /\ config = NoConfig

(***************************************************************************)
(* Specification of the reconciliation: a list of records is reconciled,   *)
(* and the result is reconciled once more.                                 *)
(***************************************************************************)
Init ==
    /\ pc = "start"
    /\ heap \in UNION {[1..n -> ReconcileSamples] : n \in 0..MaxRecords}
    /\ input = heap
    /\ records = Ids(Len(heap))
    /\ final_list = << >>
    /\ again_list = << >>
    /\ end_period = NoneVal
    /\ filtered = << >>
    /\ root = << >>
    /\ settings = IdleSettings
    /\ substitutions = << >>
    /\ from_time = 0
    /\ to_time = 0
    /\ detected = << >>
    /\ LaterIdle

\* substitutions = self.extract_final_substitutions2(raw_substitutions)
Reconcile ==
    /\ pc = "start"
    /\ LET r == extract_final_substitutions2(heap, records)
       IN  /\ heap' = r.heap
           /\ final_list' = r.list
    /\ pc' = "reconciled"
    /\ UNCHANGED <<input, records, again_list, end_period, filtered, root,
                   settings, substitutions, from_time, to_time, detected,
                   laterVars>>

\* The resolver run on its own output.
ReconcileAgain ==
    /\ pc = "reconciled"
    /\ LET r == extract_final_substitutions2(heap, final_list)
       IN  /\ heap' = r.heap
           /\ again_list' = r.list
    /\ input' = heap
    /\ pc' = "twice"
    /\ UNCHANGED <<records, final_list, end_period, filtered, root,
                   settings, substitutions, from_time, to_time, detected,
                   laterVars>>

Next == Reconcile \/ ReconcileAgain

Spec == Init /\ [][Next]_vars

(***************************************************************************)
(* Specification of the order-sensitive reconciliation: a list of records  *)
(* is given to extract_final_substitutions.                                *)
(***************************************************************************)
ReconcileLegacy ==
    /\ pc = "start"
    /\ LET r == extract_final_substitutions(heap, records)
       IN  /\ heap' = r.heap
           /\ final_list' = r.list
    /\ pc' = "legacy"
    /\ UNCHANGED <<input, records, again_list, end_period, filtered, root,
                   settings, substitutions, from_time, to_time, detected,
                   laterVars>>

NextLegacy == ReconcileLegacy

SpecLegacy == Init /\ [][NextLegacy]_vars

(***************************************************************************)
(* Specification of the day-end clamp: a list of records with Period       *)
(* labels of every shape is filtered under a configuration.                *)
(***************************************************************************)
ClampLabels ==
    {EmptyStr, <<" ">>, <<"x">>,
     <<"3">>, <<"6">>, <<"1", "0", "0">>,
     <<"3", "-", "7">>, <<"0", "7", "-", "3">>, <<"2", "-", "1", "0", "0">>,
     <<"1", ".", " ", "h", "o", "d">>,
     WholeDay, <<"C", "e", "l", "ý", " ", "D", "e", "n">>}

\* The record at position i of the list carries the subject SubjectTags[i].
SubjectTags == <<<<"M">>, <<"D">>, <<"F">>, <<"A">>>>

ClampInputs ==
    UNION {{[i \in 1..n |->
                Rec(C3A, labels[i], SubjectTags[i], EmptyStr, Supl, EmptyStr)] :
            labels \in [1..n -> ClampLabels]} : n \in 0..MaxClampRecords}

EndPeriodValues ==
    {NoneVal, FloatVal, BoolVal(TRUE), BoolVal(FALSE)}
    \cup {IntVal(n) : n \in ((-1)..MaxSmallEndPeriod)
                            \cup ((WholeDayEnd - 1)..MaxEndPeriod)}
    \cup {StrVal(t) : t \in {EmptyStr, <<" ">>, <<" ", "4", " ">>,
                             <<"x", "4">>, <<"0">>, <<"1", "2">>}}

EndHourValues == {NoneVal, IntVal(0), IntVal(2), StrVal(<<"5">>)}

ClampSettings ==
    {[IdleSettings EXCEPT !.day_end_period = v] : v \in EndPeriodValues}
    \cup {[IdleSettings EXCEPT !.day_end_period = v, !.day_end_hour = w] :
            v \in {NoneVal, IntVal(0), IntVal(3)}, w \in EndHourValues}

InitClamp ==
    /\ pc = "start"
    /\ heap \in ClampInputs
    /\ input = heap
    /\ records = Ids(Len(heap))
    /\ settings \in ClampSettings
    /\ end_period = NoneVal
    /\ filtered = << >>
    /\ final_list = << >>
    /\ again_list = << >>
    /\ root = << >>
    /\ substitutions = << >>
    /\ from_time = 0
    /\ to_time = 0
    /\ detected = << >>
    /\ LaterIdle

\* filter_records_by_end_period(records)
Clamp ==
    /\ pc = "start"
    /\ LET m == day_end_period(settings)
           r == filter_records_by_end_period(heap, records, m)
       IN  /\ end_period' = m
           /\ heap' = r.heap
           /\ filtered' = r.list
    /\ pc' = "clamped"
    /\ UNCHANGED <<input, records, final_list, again_list, root, settings,
                   substitutions, from_time, to_time, detected,
                   laterVars>>

NextClamp == Clamp

SpecClamp == InitClamp /\ [][NextClamp]_vars

(***************************************************************************)
(* Specification of the repeated clamp: the list the clamp returned is     *)
(* given to it once more, under the same configuration.                    *)
(***************************************************************************)
\* filter_records_by_end_period(filter_records_by_end_period(records))
ClampAgain ==
    /\ pc = "clamped"
    /\ LET r == filter_records_by_end_period(heap, filtered,
                                             day_end_period(settings))
       IN  /\ heap' = r.heap
           /\ again_list' = r.list
    /\ input' = heap
    /\ pc' = "clamped_twice"
    /\ UNCHANGED <<records, final_list, end_period, filtered, root, settings,
                   substitutions, from_time, to_time, detected, laterVars>>

NextClampTwice == Clamp \/ ClampAgain

SpecClampTwice == InitClamp /\ [][NextClampTwice]_vars

(***************************************************************************)
(* Specification of the period resolver: _detect_periods is applied to a   *)
(* pair of times of day.                                                   *)
(***************************************************************************)
MinutesPerDay == 1440

TimeSamples ==
    {t \in 0..(MinutesPerDay - 1) :
        \/ t <= Slack
        \/ t >= MinutesPerDay - Slack
        \/ \E i \in DOMAIN periods :
              \/ (t >= periods[i].start - Slack /\ t <= periods[i].start + Slack)
              \/ (t >= periods[i].end - Slack /\ t <= periods[i].end + Slack)}

InitPeriods ==
    /\ pc = "start"
    /\ from_time \in TimeSamples
    /\ to_time \in TimeSamples
    /\ detected = << >>
    /\ heap = << >>
    /\ input = << >>
    /\ records = << >>
    /\ final_list = << >>
    /\ again_list = << >>
    /\ end_period = NoneVal
    /\ filtered = << >>
    /\ root = << >>
    /\ settings = IdleSettings
    /\ substitutions = << >>
    /\ LaterIdle

\* schedule._detect_periods(from_time, to_time)
DetectPeriods ==
    /\ pc = "start"
    /\ detected' = _detect_periods(from_time, to_time)
    /\ pc' = "detected"
    /\ UNCHANGED <<heap, input, records, final_list, again_list, end_period,
                   filtered, root, settings, substitutions, from_time,
                   to_time,
                   laterVars>>

NextPeriods == DetectPeriods

SpecPeriods == InitPeriods /\ [][NextPeriods]_vars

(***************************************************************************)
(* Specification of the record extractor: the substitution events of a     *)
(* document are extracted under a configuration of included and excluded   *)
(* classes.  The identifier index of the document is the one built by      *)
(* __init__ from the elements below.                                       *)
(***************************************************************************)
S1 == <<"S", "1">>

\* The mappings built by SuplovaniBase.__init__ and SuplovaniZaci.__init__.
Index ==
    [event_group_mapping |->
        ("e1" :> "g1" @@ "e2" :> "g2" @@ "e3" :> "g3" @@ "e4" :> "g9"),
     group_mapping |->
        ("g1" :> [class |-> C3A, group |-> C3A]
         @@ "g2" :> [class |-> C3A, group |-> S1]
         @@ "g3" :> [class |-> C3B, group |-> C3B]),
     period_mapping |-> ("p3" :> P3 @@ "p34" :> <<"3", "-", "4">>),
     subject_mapping |-> ("r1" :> <<"M">> @@ "r2" :> <<"D">>),
     event_room_mapping |->
        ("e1" :> <<<<"R", "1">>>> @@ "e2" :> <<<<"R", "1">>, <<"R", "2">>>>),
     event_teacher_mapping |->
        ("e1" :> <<"t1">> @@ "e2" :> <<"t1", "t2", "t9">>),
     teacher_mapping |->
        ("t1" :> [name |-> <<"N", "1">>, abbreviation |-> <<"A", "1">>]
         @@ "t2" :> [name |-> <<"N", "2">>, abbreviation |-> EmptyStr])]

Event(event_id, period_id, od, do, subject_id, resolution, note) ==
    [UDALOST_ID |-> event_id, OBDOBI_DNE_ID |-> period_id, CasOd |-> od,
     CasDo |-> do, REALIZACE_ID |-> subject_id, ZpusobReseni |-> resolution,
     Poznamka |-> note]

EventSamples ==
    {Event(e, "p3", IsoTime(Time(9, 35)), IsoTime(t), "r1", z, EmptyStr) :
        e \in {"e1", "e2", "e3", "e4"},
        t \in {Time(10, 20), Time(11, 15)},
        z \in {Odpada, Supl}}
    \cup {Event("e5", "", IsoTime(Time(10, 25)), IsoTime(Time(10, 25)), "",
                EmptyStr, <<"x">>),
          Event("e1", "p3", NotIso, IsoTime(Time(10, 20)), "r1", Supl,
                EmptyStr),
          Event("e3", "p3", IsoTime(Time(9, 35)), NotIso, "r1", Supl,
                EmptyStr)}

ClassSets == SUBSET {C3A, C3B}

InitExtract ==
    /\ pc = "start"
    /\ root \in UNION {[1..n -> EventSamples] : n \in 0..MaxEvents}
    /\ settings \in {[IdleSettings EXCEPT !.include = inc, !.exclude = exc] :
                        inc \in ClassSets, exc \in ClassSets}
    /\ substitutions = << >>
    /\ heap = << >>
    /\ input = << >>
    /\ records = << >>
    /\ final_list = << >>
    /\ again_list = << >>
    /\ end_period = NoneVal
    /\ filtered = << >>
    /\ from_time = 0
    /\ to_time = 0
    /\ detected = << >>
    /\ LaterIdle

\* raw_substitutions = self.extract_substitutions(): the dicts it builds are
\* new objects of the heap.
ExtractSubstitutions ==
    /\ pc = "start"
    /\ LET r == extract_substitutions(Index, settings, root)
       IN  /\ heap' = heap \o r.list
           /\ substitutions' = [k \in DOMAIN r.list |-> Len(heap) + k]
           /\ pc' = IF r.raised THEN "raised" ELSE "extracted"
    /\ UNCHANGED <<input, records, final_list, again_list, end_period,
                   filtered, root, settings, from_time, to_time, detected,
                   laterVars>>

NextExtract == ExtractSubstitutions

SpecExtract == InitExtract /\ [][NextExtract]_vars

(***************************************************************************)
(* Specification of the period labels: the events of the document carry    *)
(* every combination of a period id (known, unknown, none) and a time      *)
(* interval (inside a period, across periods, in a break, before the first *)
(* and after the last period, the whole day, midnight to midnight); no     *)
(* class filter is set.                                                    *)
(***************************************************************************)
LabelIntervals ==
    {<<Time(9, 35), Time(10, 20)>>, <<Time(9, 35), Time(11, 15)>>,
     <<Time(10, 25), Time(10, 25)>>, <<Time(10, 21), Time(10, 29)>>,
     <<Time(7, 0), Time(7, 54)>>, <<Time(14, 51), Time(16, 0)>>,
     <<Time(7, 55), Time(14, 50)>>, <<Midnight, Midnight>>}

LabelEvents ==
    {Event("e1", p, IsoTime(t[1]), IsoTime(t[2]), "r1", Supl, EmptyStr) :
        p \in {"p3", "p34", "p9", ""}, t \in LabelIntervals}

InitPeriodLabel ==
    /\ pc = "start"
    /\ root \in UNION {[1..n -> LabelEvents] : n \in 0..MaxLabelEvents}
    /\ settings = IdleSettings
    /\ substitutions = << >>
    /\ heap = << >>
    /\ input = << >>
    /\ records = << >>
    /\ final_list = << >>
    /\ again_list = << >>
    /\ end_period = NoneVal
    /\ filtered = << >>
    /\ from_time = 0
    /\ to_time = 0
    /\ detected = << >>
    /\ LaterIdle

SpecPeriodLabel == InitPeriodLabel /\ [][NextExtract]_vars

(***************************************************************************)
(* Specification of the index builder: an instance is constructed from a   *)
(* document whose elements are complete or lack one child.                 *)
(***************************************************************************)
FullElements ==
    {Element("Predmet", ("REALIZACE_ID" :> "r1" @@ "Zkratka" :> <<"M">>)),
     Element("Mistnost", ("MISTNOST_ID" :> "m1" @@ "Zkratka" :> <<"R", "1">>)),
     Element("VyucovaciHodinaOd",
             ("OBDOBI_DNE_ID" :> "p34" @@ "Nazev" :> <<"3">>
              @@ "HodinaOd" :> <<"3">> @@ "HodinaDo" :> <<"4">>)),
     Element("Ucitel",
             ("OSOBA_ID" :> "t1" @@ "Zkratka" :> <<"A", "1">>
              @@ "Jmeno" :> <<"J">> @@ "Prijmeni" :> <<"P">>)),
     Element("Ucitel2",
             ("OSOBA_ID" :> "t2" @@ "Zkratka" :> <<"A", "2">>
              @@ "Jmeno" :> <<"K">> @@ "Prijmeni" :> <<"Q">>)),
     Element("Trida", ("SKUPINA_ID" :> "c1" @@ "Nazev" :> C3A)),
     Element("TridaSkupinaSeminar",
             ("SKUPINA_ID" :> "g2" @@ "SKUPINA_ID_PARENT" :> "c1"
              @@ "Nazev" :> S1)),
     Element("UdalostStudijniSkupina",
             ("UDALOST_ID" :> "e1" @@ "SKUPINA_ID" :> "g2")),
     Element("UdalostMistnost", ("UDALOST_ID" :> "e1" @@ "MISTNOST_ID" :> "m1")),
     Element("UdalostOsoba", ("UDALOST_ID" :> "e1" @@ "OSOBA_ID" :> "t1")),
     Element("SuplovaniDruhAbsence",
             ("SUPL_DRUH_ABSENCE_ID" :> "a1" @@ "Nazev" :> <<"N">>))}

\* The element el without its child key.
Without(el, key) ==
    [el EXCEPT !.child = [k \in (DOMAIN el.child) \ {key} |-> el.child[k]]]

ElementSamples ==
    FullElements
    \cup {Without(el, key) : el \in FullElements,
                             key \in {"REALIZACE_ID", "MISTNOST_ID",
                                      "OBDOBI_DNE_ID", "OSOBA_ID",
                                      "SKUPINA_ID", "SKUPINA_ID_PARENT",
                                      "UDALOST_ID", "SUPL_DRUH_ABSENCE_ID",
                                      "Zkratka", "Nazev", "Jmeno", "Prijmeni",
                                      "HodinaDo"}}
    \cup {Element("Datum", ("text" :> IsoTime(Midnight))),
          Element("Datum", ("text" :> NotIso))}

InitIndex ==
    /\ pc = "start"
    /\ document \in UNION {[1..n -> ElementSamples] : n \in 0..MaxElements}
    /\ mappings = NoIndex
    /\ absences = << >>
    /\ output_format = ""
    /\ rendered = << >>
    /\ workers = << >>
    /\ config = NoConfig
    /\ heap = << >>
    /\ input = << >>
    /\ records = << >>
    /\ final_list = << >>
    /\ again_list = << >>
    /\ end_period = NoneVal
    /\ filtered = << >>
    /\ root = << >>
    /\ settings = IdleSettings
    /\ substitutions = << >>
    /\ from_time = 0
    /\ to_time = 0
    /\ detected = << >>

\* supl = SuplovaniZaci(xml_file, config)
Construct ==
    /\ pc = "start"
    /\ mappings' = SuplovaniZaci(document)
    /\ pc' = IF SuplovaniZaci(document).built THEN "constructed" ELSE "failed"
    /\ UNCHANGED <<heap, input, records, final_list, again_list, end_period,
                   filtered, root, settings, substitutions, from_time,
                   to_time, detected, document, absences, output_format,
                   rendered, workers, config>>

NextIndex == Construct

SpecIndex == InitIndex /\ [][NextIndex]_vars

(***************************************************************************)
(* Specification of the absence extractor: an instance is constructed from *)
(* a document with teachers, absence reasons and absence elements, and     *)
(* extract_absences is called on it.                                       *)
(***************************************************************************)
\* The teachers and absence reasons of the document: t1, the assistant t3,
\* and the reason a1.
Staff ==
    << Element("Ucitel",
               ("OSOBA_ID" :> "t1" @@ "Zkratka" :> <<"A", "1">>
                @@ "Jmeno" :> <<"J">> @@ "Prijmeni" :> <<"P">>)),
       Element("Ucitel",
               ("OSOBA_ID" :> "t3" @@ "Zkratka" :> <<"k", "o", "p">>
                @@ "Jmeno" :> <<"K">> @@ "Prijmeni" :> <<"Q">>)),
       Element("SuplovaniDruhAbsence",
               ("SUPL_DRUH_ABSENCE_ID" :> "a1" @@ "Nazev" :> <<"N">>)) >>

AbsenceSamples ==
    {Element("AbsenceZdrojeVeDni", reason @@ event @@ times) :
        reason \in {"SUPL_DRUH_ABSENCE_ID" :> "a1",
                    "SUPL_DRUH_ABSENCE_ID" :> "a9", << >>},
        event \in {"UDALOST_ID" :> "u1", "UDALOST_ID" :> "u2", << >>},
        times \in {"Od" :> IsoTime(Time(7, 55)) @@ "Do" :> IsoTime(Time(9, 30)),
                   "Od" :> IsoTime(Midnight) @@ "Do" :> IsoTime(Midnight),
                   "Do" :> IsoTime(Time(9, 30))}}
    \cup {Element("AbsenceUcitele", event @@ teacher) :
        event \in {"UDALOST_ID" :> "u1", "UDALOST_ID" :> "u2", << >>},
        teacher \in {"OSOBA_ID" :> "t1", "OSOBA_ID" :> "t3",
                     "OSOBA_ID" :> "t9", << >>}}

InitAbsences ==
    /\ pc = "start"
    /\ document \in {Staff \o tail :
           tail \in UNION {[1..n -> AbsenceSamples] :
                              n \in 0..MaxAbsenceElements}}
    /\ mappings = NoIndex
    /\ absences = << >>
    /\ output_format = ""
    /\ rendered = << >>
    /\ workers = << >>
    /\ config = NoConfig
    /\ heap = << >>
    /\ input = << >>
    /\ records = << >>
    /\ final_list = << >>
    /\ again_list = << >>
    /\ end_period = NoneVal
    /\ filtered = << >>
    /\ root = << >>
    /\ settings = IdleSettings
    /\ substitutions = << >>
    /\ from_time = 0
    /\ to_time = 0
    /\ detected = << >>

\* absences = self.extract_absences()
ExtractAbsences ==
    /\ pc = "constructed"
    /\ absences' = extract_absences(mappings, document)
    /\ pc' = IF extract_absences(mappings, document).raised = ""
             THEN "absences" ELSE "absences_raised"
    /\ UNCHANGED <<heap, input, records, final_list, again_list, end_period,
                   filtered, root, settings, substitutions, from_time,
                   to_time, detected, document, mappings, output_format,
                   rendered, workers, config>>

NextAbsences == Construct \/ ExtractAbsences

SpecAbsences == InitAbsences /\ [][NextAbsences]_vars

(***************************************************************************)
(* Specification of the absence-row walk: the document holds one or two    *)
(* AbsenceZdrojeVeDni elements and up to MaxTeacherAbsences AbsenceUcitele *)
(* elements, some of them without a teacher id.                            *)
(***************************************************************************)
AbsenceSources ==
    << Element("AbsenceZdrojeVeDni",
               ("SUPL_DRUH_ABSENCE_ID" :> "a1" @@ "UDALOST_ID" :> "u1"
                @@ "Od" :> IsoTime(Time(7, 55))
                @@ "Do" :> IsoTime(Time(9, 30)))),
       Element("AbsenceZdrojeVeDni",
               ("SUPL_DRUH_ABSENCE_ID" :> "a9" @@ "UDALOST_ID" :> "u2"
                @@ "Od" :> IsoTime(Midnight) @@ "Do" :> IsoTime(Midnight))) >>

TeacherAbsenceSamples ==
    {Element("AbsenceUcitele", event @@ teacher) :
        event \in {"UDALOST_ID" :> "u1", "UDALOST_ID" :> "u2", << >>},
        teacher \in {"OSOBA_ID" :> "t1", "OSOBA_ID" :> "t2",
                     "OSOBA_ID" :> "t3", << >>}}

\* The staff of the walk: t1, t2 and the assistant t3.
WalkStaff ==
    Staff \o << Element("Ucitel",
                        ("OSOBA_ID" :> "t2" @@ "Zkratka" :> <<"B", "2">>
                         @@ "Jmeno" :> <<"L">> @@ "Prijmeni" :> <<"R">>)) >>

InitAbsenceRows ==
    /\ pc = "start"
    /\ document \in
          {WalkStaff \o SubSeq(AbsenceSources, 1, n) \o tail :
              n \in 1..2,
              tail \in UNION {[1..k -> TeacherAbsenceSamples] :
                                 k \in 0..MaxTeacherAbsences}}
    /\ mappings = NoIndex
    /\ absences = << >>
    /\ output_format = ""
    /\ rendered = << >>
    /\ workers = << >>
    /\ config = NoConfig
    /\ heap = << >>
    /\ input = << >>
    /\ records = << >>
    /\ final_list = << >>
    /\ again_list = << >>
    /\ end_period = NoneVal
    /\ filtered = << >>
    /\ root = << >>
    /\ settings = IdleSettings
    /\ substitutions = << >>
    /\ from_time = 0
    /\ to_time = 0
    /\ detected = << >>

SpecAbsenceRows == InitAbsenceRows /\ [][NextAbsences]_vars

(***************************************************************************)
(* SuplovaniZaci.generate: the pipeline from the document to the record    *)
(* list handed to a renderer.                                              *)
(***************************************************************************)
\* The record list generate hands to the renderer of a format: the CSV
\* writer gets raw_substitutions, the HTML template gets substitutions, and
\* the PDF and PNG steps read the files of the step before them.
Rendered(output_format_, raw_substitutions, substitutions_) ==
    IF output_format_ = "csv"
    THEN [given |-> TRUE, rows |-> raw_substitutions]
    ELSE IF output_format_ = "html"
    THEN [given |-> TRUE, rows |-> substitutions_]
    ELSE [given |-> FALSE, rows |-> << >>]

\* generate(output_format) on an instance with the given index, settings
\* and document: the exception it raises, or the lists it computes, the
\* heap of record dicts it leaves and what it hands to the renderer.
generate(index, st, doc, elements, output_format_) ==
    LET abs == extract_absences(index, doc)
        raw == extract_substitutions(index, st, elements)
        raw_substitutions == [k \in DOMAIN raw.list |-> k]
        final == extract_final_substitutions2(raw.list, raw_substitutions)
    IN  IF abs.raised # "" THEN [raised |-> abs.raised]
        ELSE IF raw.raised THEN [raised |-> "ValueError"]
        ELSE [raised |-> "",
              absences |-> abs,
              extracted |-> raw.list,
              heap |-> final.heap,
              raw_substitutions |-> raw_substitutions,
              substitutions |-> final.list,
              rendered |-> Rendered(output_format_, raw_substitutions,
                                    final.list)]

\* The index of the instance generate is called on.
GenerateIndex ==
    Index @@ [built |-> TRUE,
              absence_reason_mapping |-> ("a1" :> <<"N">>)]

GenerateEvents ==
    {ev \in EventSamples : ev.UDALOST_ID \in {"e1", "e2"}}

\* The absence elements of the document: none, one absence of a teacher of
\* the index, one absence of a teacher the index does not hold.
AbsenceDocs ==
    {<< >>} \cup
    {<< Element("AbsenceZdrojeVeDni",
                ("SUPL_DRUH_ABSENCE_ID" :> "a1" @@ "UDALOST_ID" :> "u1"
                 @@ "Od" :> IsoTime(Time(7, 55))
                 @@ "Do" :> IsoTime(Time(9, 30)))),
        Element("AbsenceUcitele",
                ("UDALOST_ID" :> "u1" @@ "OSOBA_ID" :> teacher)) >> :
        teacher \in {"t1", "t9"}}

Formats == {"csv", "html", "pdf", "png", "txt"}

InitGenerate ==
    /\ pc = "start"
    /\ root \in UNION {[1..n -> GenerateEvents] : n \in 0..MaxGenerateEvents}
    /\ document \in AbsenceDocs
    /\ mappings = GenerateIndex
    /\ settings \in {[IdleSettings EXCEPT !.day_end_period = v] :
                        v \in {NoneVal, IntVal(2), IntVal(3)}}
    /\ absences = << >>
    /\ output_format = ""
    /\ rendered = << >>
    /\ workers = << >>
    /\ config = NoConfig
    /\ heap = << >>
    /\ input = << >>
    /\ records = << >>
    /\ final_list = << >>
    /\ again_list = << >>
    /\ end_period = NoneVal
    /\ filtered = << >>
    /\ substitutions = << >>
    /\ from_time = 0
    /\ to_time = 0
    /\ detected = << >>

\* supl.generate(f): `input` keeps the records as extract_substitutions
\* built them, `substitutions` is raw_substitutions and `final_list` is the
\* reconciled list.
Generate ==
    /\ pc = "start"
    /\ \E f \in Formats :
          LET g == generate(mappings, settings, document, root, f)
          IN  /\ output_format' = f
              /\ IF g.raised # ""
                 THEN /\ pc' = "raised"
                      /\ UNCHANGED <<absences, heap, input, substitutions,
                                     final_list, rendered>>
                 ELSE /\ pc' = "generated"
                      /\ absences' = g.absences
                      /\ input' = g.extracted
                      /\ heap' = g.heap
                      /\ substitutions' = g.raw_substitutions
                      /\ final_list' = g.substitutions
                      /\ rendered' = g.rendered
    /\ UNCHANGED <<records, again_list, end_period, filtered, root, settings,
                   from_time, to_time, detected, document, mappings, workers,
                   config>>

NextGenerate == Generate

SpecGenerate == InitGenerate /\ [][NextGenerate]_vars

(***************************************************************************)
(* Settings: the configuration object all instances are handed.            *)
(***************************************************************************)
\* Settings.load_config: the cache after the call.  `file` is the settings
\* section of the configuration file and `expired` says that cache_ttl has
\* passed since last_loaded; a cache never loaded (last_loaded = 0) is
\* always reloaded.
LoadConfigLosesSettings(cfg, file, expired) ==
    IF ~ cfg.loaded THEN [loaded |-> TRUE, settings |-> file]
    ELSE IF expired THEN [loaded |-> TRUE, settings |-> IdleSettings]
    ELSE cfg

load_config(cfg, file, expired) ==
    IF expired \/ ~ cfg.loaded
    THEN [loaded |-> TRUE, settings |-> file]
    ELSE cfg

(***************************************************************************)
(* Specification of concurrent runs: two documents are processed, each by  *)
(* its own SuplovaniZaci instance, with the one Settings object of the     *)
(* program; the steps of the two runs interleave.  The two documents use   *)
(* the same identifiers for different classes, teachers and reasons.       *)
(***************************************************************************)
Workers == {1, 2}

\* The index and absence elements of the document of run d.
WorkerDocument(d) ==
    << Element("Trida", ("SKUPINA_ID" :> "c1"
                         @@ "Nazev" :> (IF d = 1 THEN C3A ELSE C3B))),
       Element("TridaSkupinaSeminar",
               ("SKUPINA_ID" :> "g1" @@ "SKUPINA_ID_PARENT" :> "c1"
                @@ "Nazev" :> (IF d = 1 THEN C3A ELSE C3B))),
       Element("TridaSkupinaSeminar",
               ("SKUPINA_ID" :> "g2" @@ "SKUPINA_ID_PARENT" :> "c1"
                @@ "Nazev" :> S1)),
       Element("UdalostStudijniSkupina",
               ("UDALOST_ID" :> "e1" @@ "SKUPINA_ID" :> "g1")),
       Element("UdalostStudijniSkupina",
               ("UDALOST_ID" :> "e2" @@ "SKUPINA_ID" :> "g2")),
       Element("Predmet",
               ("REALIZACE_ID" :> "r1"
                @@ "Zkratka" :> (IF d = 1 THEN <<"M">> ELSE <<"F">>))),
       Element("Ucitel",
               ("OSOBA_ID" :> "t1" @@ "Zkratka" :> <<"A", "1">>
                @@ "Jmeno" :> (IF d = 1 THEN <<"J">> ELSE <<"K">>)
                @@ "Prijmeni" :> <<"P">>)),
       Element("SuplovaniDruhAbsence",
               ("SUPL_DRUH_ABSENCE_ID" :> "a1" @@ "Nazev" :> <<"N">>)),
       Element("AbsenceZdrojeVeDni",
               ("SUPL_DRUH_ABSENCE_ID" :> (IF d = 1 THEN "a1" ELSE "a9")
                @@ "UDALOST_ID" :> "u1"
                @@ "Od" :> IsoTime(Time(7, 55))
                @@ "Do" :> IsoTime(Time(9, 30)))),
       Element("AbsenceUcitele",
               ("UDALOST_ID" :> "u1" @@ "OSOBA_ID" :> "t1")) >>

\* The substitution events the document of run d is made of.
WorkerEvents(d) ==
    {Event("e1", "", IsoTime(Time(9, 35)), IsoTime(Time(10, 20)), "r1",
           Odpada, EmptyStr),
     Event("e2", "", IsoTime(Time(9, 35)), IsoTime(Time(10, 20)), "r1",
           Supl, EmptyStr)}
    \cup (IF d = 1
          THEN {Event("e1", "", IsoTime(Time(9, 35)), IsoTime(Time(11, 15)),
                      "r1", Supl, <<"x">>)}
          ELSE {})

\* A run before its instance is constructed.
NewWorker(d, events) ==
    [pc |-> "start", events |-> events,
     mappings |-> NoIndex, absences |-> << >>, position |-> 1,
     heap |-> << >>, raw |-> << >>, final |-> << >>]

InitWorkers ==
    /\ pc = "running"
    /\ workers \in
          {[d \in Workers |-> NewWorker(d, evs[d])] :
              evs \in {f \in [Workers ->
                                UNION {[1..n -> WorkerEvents(1)] :
                                         n \in 0..MaxWorkerEvents}] :
                         \A d \in Workers :
                             \A i \in DOMAIN f[d] :
                                 f[d][i] \in WorkerEvents(d)}}
    /\ settings \in {[IdleSettings EXCEPT !.include = {C3A}],
                      [IdleSettings EXCEPT !.exclude = {C3A}]}
    /\ config = NoConfig
    /\ document = << >>
    /\ mappings = NoIndex
    /\ absences = << >>
    /\ output_format = ""
    /\ rendered = << >>
    /\ heap = << >>
    /\ input = << >>
    /\ records = << >>
    /\ final_list = << >>
    /\ again_list = << >>
    /\ end_period = NoneVal
    /\ filtered = << >>
    /\ root = << >>
    /\ substitutions = << >>
    /\ from_time = 0
    /\ to_time = 0
    /\ detected = << >>

\* What a step of a run leaves alone, but for `workers` and `config`.
workerFrame ==
    <<pc, heap, input, records, final_list, again_list, end_period, filtered,
      root, settings, substitutions, from_time, to_time, detected, document,
      mappings, absences, output_format, rendered>>

\* supl = SuplovaniZaci(xml_file, config)
RunConstruct(d) ==
    /\ workers[d].pc = "start"
    /\ LET index == SuplovaniZaci(WorkerDocument(d))
       IN  workers' = [workers EXCEPT
                          ![d].mappings = index,
                          ![d].pc = IF index.built THEN "constructed"
                                    ELSE "raised"]
    /\ UNCHANGED <<config, workerFrame>>

\* absences = self.extract_absences()
RunExtractAbsences(d) ==
    /\ workers[d].pc = "constructed"
    /\ LET abs == extract_absences(workers[d].mappings, WorkerDocument(d))
       IN  workers' = [workers EXCEPT
                          ![d].absences = abs,
                          ![d].pc = IF abs.raised = "" THEN "extracting"
                                    ELSE "raised"]
    /\ UNCHANGED <<config, workerFrame>>

\* One iteration of the loop of extract_substitutions: the event at
\* `position` is resolved against the index of the instance, and the class
\* filter is read through Settings.get, which may reload the cache.
RunExtractSubstitution(d) ==
    /\ workers[d].pc = "extracting"
    /\ workers[d].position <= Len(workers[d].events)
    /\ \E expired \in BOOLEAN :
          LET w == workers[d]
              record == w.events[w.position]
              cfg == load_config(config, settings, expired)
              write == Write(cfg.settings, ClassNameOf(w.mappings, record))
          IN  IF from_iso(record.CasOd, record.CasDo) = << >>
              THEN /\ workers' = [workers EXCEPT ![d].pc = "raised"]
                   /\ UNCHANGED config
              ELSE /\ config' = cfg
                   /\ workers' =
                         [workers EXCEPT
                             ![d].position = @ + 1,
                             ![d].heap =
                                 IF write
                                 THEN Append(@, BuildRecord(w.mappings, record))
                                 ELSE @,
                             ![d].raw =
                                 IF write THEN Append(@, Len(w.heap) + 1)
                                 ELSE @]
    /\ UNCHANGED workerFrame

\* return substitutions
RunReturnSubstitutions(d) ==
    /\ workers[d].pc = "extracting"
    /\ workers[d].position > Len(workers[d].events)
    /\ workers' = [workers EXCEPT ![d].pc = "extracted"]
    /\ UNCHANGED <<config, workerFrame>>

\* substitutions = self.extract_final_substitutions2(raw_substitutions)
RunReconcile(d) ==
    /\ workers[d].pc = "extracted"
    /\ LET r == extract_final_substitutions2(workers[d].heap, workers[d].raw)
       IN  workers' = [workers EXCEPT
                          ![d].heap = r.heap,
                          ![d].final = r.list,
                          ![d].pc = "reconciled"]
    /\ UNCHANGED <<config, workerFrame>>

NextWorkers ==
    \E d \in Workers :
        \/ RunConstruct(d)
        \/ RunExtractAbsences(d)
        \/ RunExtractSubstitution(d)
        \/ RunReturnSubstitutions(d)
        \/ RunReconcile(d)

SpecWorkers == InitWorkers /\ [][NextWorkers]_vars

(***************************************************************************)
(* Specification of one extract_substitutions call under a configuration   *)
(* file that may be edited while the call iterates.  Every Settings.get of *)
(* the class filter is a step of its own: it returns the cached settings,  *)
(* reloaded from the file when the TTL of the cache has passed.            *)
(***************************************************************************)
ReloadEvents ==
    {Event("e1", "p3", IsoTime(Time(9, 35)), IsoTime(Time(10, 20)), "r1",
           Supl, EmptyStr),
     Event("e3", "p3", IsoTime(Time(9, 35)), IsoTime(Time(10, 20)), "r1",
           Supl, EmptyStr)}

\* The settings sections the configuration file may hold.
ReloadSettings ==
    {IdleSettings,
     [IdleSettings EXCEPT !.include = {C3A}],
     [IdleSettings EXCEPT !.exclude = {C3A}]}

\* The run: its position in the loop and in the filter of the record at
\* that position, the sets its reads returned (first: by the first read of
\* the call; tested: by the emptiness test of the record; checked: by its
\* membership test, when it has one), and the number of edits of the file
\* so far.
NewRun ==
    [pc |-> "loop", position |-> 1, write |-> TRUE,
     read |-> FALSE, first |-> IdleSettings, last |-> IdleSettings,
     tested |-> {}, member |-> FALSE, checked |-> {}, edits |-> 0]

InitReload ==
    /\ pc = "running"
    /\ root \in UNION {[1..n -> ReloadEvents] : n \in 0..MaxReloadEvents}
    /\ settings \in ReloadSettings
    /\ config \in {NoConfig, [loaded |-> TRUE, settings |-> settings]}
    /\ workers = <<NewRun>>
    /\ substitutions = << >>
    /\ heap = << >>
    /\ input = << >>
    /\ records = << >>
    /\ final_list = << >>
    /\ again_list = << >>
    /\ end_period = NoneVal
    /\ filtered = << >>
    /\ from_time = 0
    /\ to_time = 0
    /\ detected = << >>
    /\ document = << >>
    /\ mappings = NoIndex
    /\ absences = << >>
    /\ output_format = ""
    /\ rendered = << >>

\* What a step of the run leaves alone, but for workers, config, settings,
\* heap and substitutions.
reloadFrame ==
    <<pc, input, records, final_list, again_list, end_period, filtered, root,
      from_time, to_time, detected, document, mappings, absences,
      output_format, rendered>>

\* The run after a Settings.get that found the cache cfg.
AfterGet(run, cfg) ==
    [run EXCEPT !.read = TRUE,
                !.last = cfg.settings,
                !.first = IF run.read THEN @ ELSE cfg.settings]

\* for record in self.root.findall(".//VypisSuplovaniZaka"): the fields of
\* the record are resolved, or the loop ends and the list is returned.
LoopStep ==
    /\ workers[1].pc = "loop"
    /\ workers' =
          [workers EXCEPT
              ![1].pc = IF workers[1].position > Len(root) THEN "returned"
                        ELSE IF from_iso(root[workers[1].position].CasOd,
                                         root[workers[1].position].CasDo)
                                    = << >>
                        THEN "raised"
                        ELSE "include_not_none",
              ![1].write = TRUE,
              ![1].tested = {},
              ![1].member = FALSE,
              ![1].checked = {}]
    /\ UNCHANGED <<config, settings, heap, substitutions, reloadFrame>>

\* self.classes_to_include() is not None
IncludeNotNone ==
    /\ workers[1].pc = "include_not_none"
    /\ \E expired \in BOOLEAN :
          LET cfg == load_config(config, settings, expired)
          IN  /\ config' = cfg
              /\ workers' = [workers EXCEPT
                                ![1] = [AfterGet(@, cfg) EXCEPT
                                           !.pc = "include_len"]]
    /\ UNCHANGED <<settings, heap, substitutions, reloadFrame>>

\* len(self.classes_to_include()) > 0
IncludeLen ==
    /\ workers[1].pc = "include_len"
    /\ \E expired \in BOOLEAN :
          LET cfg == load_config(config, settings, expired)
              include == classes_to_include(cfg.settings)
          IN  /\ config' = cfg
              /\ workers' = [workers EXCEPT
                                ![1] = [AfterGet(@, cfg) EXCEPT
                                           !.tested = include,
                                           !.pc = IF Cardinality(include) > 0
                                                  THEN "include_in"
                                                  ELSE "exclude_not_none"]]
    /\ UNCHANGED <<settings, heap, substitutions, reloadFrame>>

\* write = class_name in self.classes_to_include()
IncludeIn ==
    /\ workers[1].pc = "include_in"
    /\ \E expired \in BOOLEAN :
          LET cfg == load_config(config, settings, expired)
              include == classes_to_include(cfg.settings)
              class_name == ClassNameOf(Index, root[workers[1].position])
          IN  /\ config' = cfg
              /\ workers' = [workers EXCEPT
                                ![1] = [AfterGet(@, cfg) EXCEPT
                                           !.member = TRUE,
                                           !.checked = include,
                                           !.write = class_name \in include,
                                           !.pc = "append"]]
    /\ UNCHANGED <<settings, heap, substitutions, reloadFrame>>

\* self.classes_to_exclude() is not None
ExcludeNotNone ==
    /\ workers[1].pc = "exclude_not_none"
    /\ \E expired \in BOOLEAN :
          LET cfg == load_config(config, settings, expired)
          IN  /\ config' = cfg
              /\ workers' = [workers EXCEPT
                                ![1] = [AfterGet(@, cfg) EXCEPT
                                           !.pc = "exclude_len"]]
    /\ UNCHANGED <<settings, heap, substitutions, reloadFrame>>

\* len(self.classes_to_exclude()) > 0
ExcludeLen ==
    /\ workers[1].pc = "exclude_len"
    /\ \E expired \in BOOLEAN :
          LET cfg == load_config(config, settings, expired)
              exclude == classes_to_exclude(cfg.settings)
          IN  /\ config' = cfg
              /\ workers' = [workers EXCEPT
                                ![1] = [AfterGet(@, cfg) EXCEPT
                                           !.tested = exclude,
                                           !.pc = IF Cardinality(exclude) > 0
                                                  THEN "exclude_in"
                                                  ELSE "append"]]
    /\ UNCHANGED <<settings, heap, substitutions, reloadFrame>>

\* write = class_name not in self.classes_to_exclude()
ExcludeIn ==
    /\ workers[1].pc = "exclude_in"
    /\ \E expired \in BOOLEAN :
          LET cfg == load_config(config, settings, expired)
              exclude == classes_to_exclude(cfg.settings)
              class_name == ClassNameOf(Index, root[workers[1].position])
          IN  /\ config' = cfg
              /\ workers' = [workers EXCEPT
                                ![1] = [AfterGet(@, cfg) EXCEPT
                                           !.member = TRUE,
                                           !.checked = exclude,
                                           !.write = class_name \notin exclude,
                                           !.pc = "append"]]
    /\ UNCHANGED <<settings, heap, substitutions, reloadFrame>>

\* if write: substitutions.append({...})
AppendIfWrite ==
    /\ workers[1].pc = "append"
    /\ IF workers[1].write
       THEN /\ heap' = Append(heap,
                              BuildRecord(Index, root[workers[1].position]))
            /\ substitutions' = Append(substitutions, Len(heap) + 1)
       ELSE UNCHANGED <<heap, substitutions>>
    /\ workers' = [workers EXCEPT ![1].pc = "loop", ![1].position = @ + 1]
    /\ UNCHANGED <<config, settings, reloadFrame>>

\* The configuration file is edited while the call runs.
EditConfig ==
    /\ workers[1].pc \notin {"returned", "raised"}
    /\ workers[1].edits < MaxConfigEdits
    /\ settings' \in ReloadSettings \ {settings}
    /\ workers' = [workers EXCEPT ![1].edits = @ + 1]
    /\ UNCHANGED <<config, heap, substitutions, reloadFrame>>

NextReload ==
    \/ LoopStep
    \/ IncludeNotNone
    \/ IncludeLen
    \/ IncludeIn
    \/ ExcludeNotNone
    \/ ExcludeLen
    \/ ExcludeIn
    \/ AppendIfWrite
    \/ EditConfig

SpecReload == InitReload /\ [][NextReload]_vars

(***************************************************************************)
(* Properties of the grouped reconciliation (specification Spec).          *)
(* `records` is <<1, ..., n>>, so heap indices are input positions.        *)
(***************************************************************************)
Emitted(i) == \E k \in 1..Len(final_list) : final_list[k] = i

\* The records the output holds for one slot, in output order.
SlotOutput(key) == SelectSeq(final_list, LAMBDA i : SlotKey(heap[i]) = key)

\* The input positions of one slot.
SlotInput(key) == {i \in DOMAIN input : SlotKey(input[i]) = key}

\* The general cancellations the input holds in the slot of record i.
GeneralCancelsBeside(i) ==
    {g \in SlotInput(SlotKey(input[i])) : IsGeneralCancel(input[g])}

LastGeneralCancelBeside(i) ==
    CHOOSE g \in GeneralCancelsBeside(i) :
        \A g2 \in GeneralCancelsBeside(i) : g2 <= g

\* An emitted substitution whose slot held a general cancellation (which the
\* resolver suppressed) and whose Note was empty on input.
BackfillCase(i) ==
    /\ Emitted(i)
    /\ IsSubstitution(input[i])
    /\ GeneralCancelsBeside(i) # {}
    /\ input[i].Note = EmptyStr

\* C1: in the output of extract_final_substitutions2, a (Class, Period) slot
\* whose input holds at least one record that is not a cancellation (its
\* Resolution, read as the code reads it, is not "odpadá") holds no general
\* cancellation (Group empty and Resolution "odpadá").
C1_NoGeneralCancelBesideSubstitution ==
    pc = "reconciled" =>
        \A i \in DOMAIN input :
            IsSubstitution(input[i]) =>
                \A k \in 1..Len(final_list) :
                    ~ (/\ SlotKey(heap[final_list[k]]) = SlotKey(input[i])
                       /\ IsGeneralCancel(heap[final_list[k]]))

C1_Witness ==
    /\ pc = "reconciled"
    /\ \E i \in DOMAIN input :
          /\ IsSubstitution(input[i])
          /\ GeneralCancelsBeside(i) # {}
          /\ Emitted(i)

\* C2 as stated: every substitution emitted from a slot whose general
\* cancellation was suppressed, and whose Note was empty on input, leaves
\* with a non-empty Note that contains the Subject of the suppressed
\* cancellation.
C2_Original ==
    pc = "reconciled" =>
        \A i \in DOMAIN input :
            BackfillCase(i) =>
                /\ heap[i].Note # EmptyStr
                /\ \E g \in GeneralCancelsBeside(i) :
                      Contains(heap[i].Note, input[g].Subject)

\* C2 as amended: such a record leaves with the Note "za " followed by the
\* Subject (without surrounding whitespace) of the last general cancellation
\* of its slot when that Subject is not blank, and with its Note untouched
\* (still empty) when that Subject is blank.
C2_NoteBackfilledUnlessSubjectBlank ==
    pc = "reconciled" =>
        \A i \in DOMAIN input :
            BackfillCase(i) =>
                LET subject == Strip(input[LastGeneralCancelBeside(i)].Subject)
                IN  IF subject = EmptyStr
                    THEN heap[i].Note = input[i].Note
                    ELSE /\ heap[i].Note = ZaPrefix \o subject
                         /\ heap[i].Note # EmptyStr
                         /\ Contains(heap[i].Note, subject)

C2_Witness ==
    /\ pc = "reconciled"
    /\ \E i \in DOMAIN input :
          /\ BackfillCase(i)
          /\ heap[i].Note # input[i].Note
          /\ Cardinality(GeneralCancelsBeside(i)) = 2

\* A slot made of exactly one whole-class cancellation g and one subgroup
\* substitution s with an empty Note.
ScenarioSlot(g, s) ==
    /\ g # s
    /\ SlotInput(SlotKey(input[g])) = {g, s}
    /\ input[g].Group = EmptyStr
    /\ input[g].Resolution = Odpada
    /\ input[s].Group # EmptyStr
    /\ IsSubstitution(input[s])
    /\ input[s].Note = EmptyStr

\* C3 as stated: for a slot made of one whole-class cancellation with a
\* non-empty Subject S and one subgroup substitution of group G with an
\* empty Note, the output of the slot is that one substitution, with
\* Group = G and Note = "za " followed by S.
C3_Original ==
    pc = "reconciled" =>
        \A g, s \in DOMAIN input :
            (ScenarioSlot(g, s) /\ input[g].Subject # EmptyStr) =>
                /\ SlotOutput(SlotKey(input[g])) = <<s>>
                /\ heap[s].Group = input[s].Group
                /\ heap[s].Note = ZaPrefix \o input[g].Subject

\* C3 as amended: when S is not blank, the output of the slot is that one
\* substitution, with Group = G and Note = "za " followed by S without its
\* surrounding whitespace.
C3_ScenarioNoteIsStrippedSubject ==
    pc = "reconciled" =>
        \A g, s \in DOMAIN input :
            (ScenarioSlot(g, s) /\ Strip(input[g].Subject) # EmptyStr) =>
                /\ SlotOutput(SlotKey(input[g])) = <<s>>
                /\ heap[s].Group = input[s].Group
                /\ heap[s].Note = ZaPrefix \o Strip(input[g].Subject)
                /\ ~ IsGeneralCancel(heap[s])

C3_Witness ==
    /\ pc = "reconciled"
    /\ \E g, s \in DOMAIN input :
          /\ ScenarioSlot(g, s)
          /\ input[g].Subject = <<"M">>
          /\ g < s
          /\ heap[s].Note = <<"z", "a", " ", "M">>
          /\ final_list = <<s>>

\* C4: extract_final_substitutions2 applied to its own output returns that
\* output: the same records in the same order, with no field changed.
C4_Idempotent ==
    pc = "twice" => (again_list = final_list /\ heap = input)

C4_Witness ==
    /\ pc = "twice"
    /\ Len(final_list) < Len(records)
    /\ Len(again_list) >= 2
    /\ \E k \in 1..Len(again_list) :
          /\ Len(heap[again_list[k]].Note) > 3
          /\ SubSeq(heap[again_list[k]].Note, 1, 3) = ZaPrefix

\* The records of one slot, as input positions in input order.
SlotMembers(key) == SelectSeq(records, LAMBDA i : SlotKey(input[i]) = key)

\* What the slot must give: its substitutions if it has any, else its last
\* general cancellation if it has one, else all its records.
SlotResult(key) ==
    LET subs == SelectSeq(SlotMembers(key),
                          LAMBDA i : IsSubstitution(input[i]))
        generals == SelectSeq(SlotMembers(key),
                              LAMBDA i : IsGeneralCancel(input[i]))
    IN  IF subs # << >> THEN subs
        ELSE IF generals # << >> THEN <<generals[Len(generals)]>>
        ELSE SlotMembers(key)

\* C22: for each (Class, Period) slot the output of
\* extract_final_substitutions2 holds exactly (a) the records of the slot
\* whose Resolution, read as the code reads it, is not "odpadá", in input
\* order, if there is one; (b) otherwise the general cancellation alone,
\* the last of the slot in input order; (c) otherwise all records of the
\* slot, none of them changed.
C22_PerSlotResult ==
    pc = "reconciled" =>
        \A p \in DOMAIN input :
            LET key == SlotKey(input[p])
            IN  /\ SlotOutput(key) = SlotResult(key)
                /\ SlotResult(key) = SlotMembers(key)
                      => \A i \in SlotInput(key) : heap[i] = input[i]

C22_Witness ==
    /\ pc = "reconciled"
    /\ Len(input) = 3
    /\ \E g1, g2, c \in DOMAIN input :
          /\ g1 < g2
          /\ SlotKey(input[g1]) = SlotKey(input[g2])
          /\ SlotKey(input[c]) = SlotKey(input[g1])
          /\ IsGeneralCancel(input[g1])
          /\ IsGeneralCancel(input[g2])
          /\ input[g1] # input[g2]
          /\ ~ IsGeneralCancel(input[c])
          /\ ~ IsSubstitution(input[c])
          /\ final_list = <<g2>>

\* The input position at which a slot first appears.
FirstSeen(key) ==
    CHOOSE i \in SlotInput(key) : \A j \in SlotInput(key) : i <= j

\* C23: the output of extract_final_substitutions2 is ordered by slot, the
\* slots in the order of their first appearance in the input, so the
\* records of one slot stand together even when the input interleaves them
\* with another slot's; the records of one slot keep their input order.
C23_SlotsInFirstSeenOrder ==
    pc = "reconciled" =>
        \A k1, k2 \in DOMAIN final_list :
            k1 < k2 =>
                LET key1 == SlotKey(input[final_list[k1]])
                    key2 == SlotKey(input[final_list[k2]])
                IN  /\ FirstSeen(key1) <= FirstSeen(key2)
                    /\ key1 = key2 => final_list[k1] < final_list[k2]

C23_Witness ==
    /\ pc = "reconciled"
    /\ Len(input) = 3
    /\ SlotKey(input[1]) = SlotKey(input[3])
    /\ SlotKey(input[1]) # SlotKey(input[2])
    /\ final_list = <<1, 3, 2>>

\* C26: extract_final_substitutions2 never loses a slot: every
\* (Class, Period) slot of the input has at least one record in the
\* output, and every record of the output is of a slot of the input.
C26_NoSlotLost ==
    pc = "reconciled" =>
        /\ \A p \in DOMAIN input : SlotOutput(SlotKey(input[p])) # << >>
        /\ \A k \in DOMAIN final_list :
               \E p \in DOMAIN input :
                   SlotKey(heap[final_list[k]]) = SlotKey(input[p])

C26_Witness ==
    /\ pc = "reconciled"
    /\ Len(input) = 3
    /\ SlotKey(input[1]) # SlotKey(input[2])
    /\ SlotKey(input[2]) = SlotKey(input[3])
    /\ ~ IsSubstitution(input[1])
    /\ ~ IsGeneralCancel(input[1])
    /\ ~ IsSubstitution(input[2])
    /\ ~ IsGeneralCancel(input[2])
    /\ IsGeneralCancel(input[3])
    /\ final_list = <<1, 3>>

\* C27: the frame of extract_final_substitutions2: every record of the
\* output is one of the input records; of every record, emitted or not,
\* all fields but Note are left as they were; a Note is changed only on an
\* emitted substitution whose Note was empty (blank, as the code reads it)
\* and whose slot holds a general cancellation, and only to "za " followed
\* by the stripped Subject of that cancellation; a record that is not
\* emitted is left unchanged.
C27_OnlyNoteOfEmittedSubstitutionChanges ==
    pc = "reconciled" =>
        /\ DOMAIN heap = DOMAIN input
        /\ \A k \in DOMAIN final_list : final_list[k] \in DOMAIN input
        /\ \A i \in DOMAIN input :
               /\ [heap[i] EXCEPT !.Note = input[i].Note] = input[i]
               /\ ~ Emitted(i) => heap[i] = input[i]
               /\ heap[i].Note # input[i].Note =>
                      /\ Emitted(i)
                      /\ IsSubstitution(input[i])
                      /\ Strip(input[i].Note) = EmptyStr
                      /\ GeneralCancelsBeside(i) # {}
                      /\ heap[i].Note =
                             ZaPrefix \o
                             Strip(input[LastGeneralCancelBeside(i)].Subject)

C27_Witness ==
    /\ pc = "reconciled"
    /\ Len(input) = 3
    /\ IsGeneralCancel(input[1])
    /\ ~ Emitted(1)
    /\ heap[1] = input[1]
    /\ heap[2].Note # input[2].Note
    /\ input[3].Note = <<"x">>
    /\ heap[3] = input[3]
    /\ final_list = <<2, 3>>

\* C18 as stated: the output of extract_final_substitutions2 holds at most
\* one record for each (Class, Period, Group).
C18_Original ==
    pc = "reconciled" =>
        \A k1, k2 \in DOMAIN final_list :
            (/\ heap[final_list[k1]].Class = heap[final_list[k2]].Class
             /\ heap[final_list[k1]].Period = heap[final_list[k2]].Period
             /\ heap[final_list[k1]].Group = heap[final_list[k2]].Group)
            => k1 = k2

(***************************************************************************)
(* Properties of the order-sensitive reconciliation (specification         *)
(* SpecLegacy).                                                            *)
(***************************************************************************)
\* The substitutions of one (Class, Period, Group) key, as input positions
\* in input order.
KeySubstitutions(key) ==
    SelectSeq(records, LAMBDA i : /\ LegacyKey(input[i]) = key
                                  /\ IsSubstitution(input[i]))

\* The records the output holds for one (Class, Period, Group) key.
KeyOutput(key) ==
    SelectSeq(final_list, LAMBDA i : LegacyKey(input[i]) = key)

Configured == end_period.type = "int"

\* The input positions the clamp drops: the label parses and starts after m.
StartsPastEnd(i) ==
    LET parsed == _parse_period_range(input[i].Period)
    IN  parsed # << >> /\ parsed[1] > end_period.value

\* The input positions the clamp must retain, in input order.
Retained == SelectSeq(records, LAMBDA i : ~ StartsPastEnd(i))

\* C5: with a configured maximum period m, filter_records_by_end_period
\* drops a record if and only if its Period label parses to a start greater
\* than m; all other records are retained, in their original relative order
\* (only their Period label may differ).
C5_DropsExactlyLateStarts ==
    (pc = "clamped" /\ Configured) =>
        /\ Len(filtered) = Len(Retained)
        /\ \A k \in 1..Len(Retained) :
              [heap[filtered[k]] EXCEPT !.Period = input[Retained[k]].Period]
                  = input[Retained[k]]

C5_Witness ==
    /\ pc = "clamped"
    /\ end_period = IntVal(4)
    /\ Len(records) = 2
    /\ input[1].Period = <<"6">>
    /\ input[2].Period = <<"3", "-", "7">>
    /\ Len(filtered) = 1
    /\ heap[filtered[1]].Subject = input[2].Subject

\* The k-th retained record, its parse and its label after the clamp.
ParsedRetained(k) == _parse_period_range(input[Retained[k]].Period)
LabelAfter(k) == heap[filtered[k]].Period
LabelBefore(k) == input[Retained[k]].Period

\* The rewriting rule of the clamp for the k-th retained record: a label
\* whose end exceeds m becomes "start-m", or "start" when start = m; any
\* other label is kept.
RewriteRule(k) ==
    LET parsed == ParsedRetained(k)
        m == end_period.value
    IN  IF parsed # << >> /\ parsed[2] > m
        THEN LabelAfter(k) =
                 IF parsed[1] < m
                 THEN ToStr(parsed[1]) \o <<"-">> \o ToStr(m)
                 ELSE ToStr(parsed[1])
        ELSE LabelAfter(k) = LabelBefore(k)

\* C6 as stated: the rewriting rule holds for every retained record, and the
\* whole-day label "celý den" always leaves as "1-m" ("1" when m = 1).
C6_Original ==
    (pc = "clamped" /\ Configured /\ Len(filtered) = Len(Retained)) =>
        \A k \in 1..Len(Retained) :
            /\ RewriteRule(k)
            /\ LabelBefore(k) = WholeDay =>
                  LabelAfter(k) =
                      IF end_period.value = 1 THEN <<"1">>
                      ELSE <<"1", "-">> \o ToStr(end_period.value)

\* C6 as amended: the rewriting rule holds for every retained record; the
\* whole-day label parses as (1, 99), so it leaves as "1-m" ("1" when m = 1)
\* for every m below 99 and is kept as it is when m is 99 or more.
C6_RewriteRuleAndWholeDayBelow99 ==
    (pc = "clamped" /\ Configured /\ Len(filtered) = Len(Retained)) =>
        \A k \in 1..Len(Retained) :
            /\ RewriteRule(k)
            /\ LabelBefore(k) = WholeDay =>
                  LabelAfter(k) =
                      IF end_period.value >= 99 THEN WholeDay
                      ELSE IF end_period.value = 1 THEN <<"1">>
                      ELSE <<"1", "-">> \o ToStr(end_period.value)

C6_Witness ==
    /\ pc = "clamped"
    /\ end_period = IntVal(3)
    /\ Len(filtered) = 2
    /\ input[1].Period = WholeDay
    /\ heap[filtered[1]].Period = <<"1", "-", "3">>
    /\ input[2].Period = <<"0", "7", "-", "3">>
    /\ heap[filtered[2]].Period = <<"3">>

\* The value the clamp is configured with: day_end_period, or day_end_hour
\* when day_end_period is absent.
ConfiguredValue ==
    IF settings.day_end_period # NoneVal
    THEN settings.day_end_period ELSE settings.day_end_hour

\* A positive integer, or a string of digits (surrounding whitespace
\* aside) that denotes one.
ValidMaximum(v) ==
    \/ v.type = "int" /\ v.value > 0
    \/ /\ v.type = "str"
       /\ IsDigitStr(Strip(v.value))
       /\ ParseInt(Strip(v.value)) > 0

\* C19 as stated: when neither key is configured, or the configured value
\* (day_end_hour being read only when day_end_period is absent) is not a
\* positive integer nor a string of digits denoting one,
\* filter_records_by_end_period returns its input: the same records, in the
\* same order, with their labels.
C19_Original ==
    (pc = "clamped" /\ ~ ValidMaximum(ConfiguredValue)) =>
        /\ filtered = records
        /\ heap = input

\* A label that is empty or holds neither a digit nor the whole-day
\* sentinel (the letters "cel" and "den", in either case).
NoNumberNoSentinel(label) ==
    /\ \A i \in DOMAIN label : ~ IsDigit(label[i])
    /\ ~ (/\ Contains(Lower(label), <<"c", "e", "l">>)
          /\ Contains(Lower(label), <<"d", "e", "n">>))

\* The records of a list whose label is of that kind, in order.
Unparsed(list, h) ==
    SelectSeq(list, LAMBDA i : i \in DOMAIN input
                               /\ NoNumberNoSentinel(h[i].Period))

\* C20: whatever maximum period day_end_period() returns, every record
\* whose Period label is empty or holds neither a number nor the whole-day
\* sentinel is retained by filter_records_by_end_period, as the same
\* record with its label unchanged, in the order of the input.
C20_UnparsedLabelsPassThrough ==
    (pc = "clamped" /\ end_period # NoneVal) =>
        /\ Unparsed(filtered, heap) = Unparsed(records, input)
        /\ \A i \in DOMAIN input :
              NoNumberNoSentinel(input[i].Period) => heap[i] = input[i]
        /\ \A k \in DOMAIN filtered :
              filtered[k] \notin DOMAIN input =>
                  ~ NoNumberNoSentinel(heap[filtered[k]].Period)

C20_Witness ==
    /\ pc = "clamped"
    /\ end_period = IntVal(1)
    /\ Len(records) = 2
    /\ input[1].Period = <<"x">>
    /\ input[2].Period = <<"3">>
    /\ filtered = <<1>>
    /\ heap[1].Period = <<"x">>

(***************************************************************************)
(* Properties of the repeated clamp (specification SpecClampTwice).        *)
(***************************************************************************)
\* The label parses to a range that ends at m or before.
WithinEnd(label, m) ==
    LET parsed == _parse_period_range(label)
    IN  parsed # << >> => (parsed[1] <= parsed[2] /\ parsed[2] <= m)

\* C29: when the clamp ran with a maximum m, every record it retained
\* whose label parses has parsed start <= parsed end <= m; the input
\* records are as they were (a rewritten label is on a copy); and the
\* clamp applied to its own output with the same m returns that output,
\* with no record copied or changed.
C29_ClampPostCondition ==
    end_period # NoneVal =>
        /\ pc = "clamped" =>
               /\ \A k \in DOMAIN filtered :
                      WithinEnd(heap[filtered[k]].Period, NumberOf(end_period))
               /\ \A i \in DOMAIN input : heap[i] = input[i]
        /\ pc = "clamped_twice" =>
               /\ again_list = filtered
               /\ heap = input

C29_Witness ==
    /\ pc = "clamped_twice"
    /\ end_period = IntVal(4)
    /\ Len(records) = 2
    /\ heap[1].Period = <<"3", "-", "7">>
    /\ heap[2].Period = WholeDay
    /\ filtered = <<3, 4>>
    /\ heap[3].Period = <<"3", "-", "4">>
    /\ heap[4].Period = <<"1", "-", "4">>
    /\ again_list = <<3, 4>>

(***************************************************************************)
(* Properties of the period resolver (specification SpecPeriods).          *)
(***************************************************************************)
\* The position in the catalogue of the period called name (0 when none).
CatalogueIndex(name) ==
    IF \E i \in DOMAIN periods : periods[i].name = name
    THEN CHOOSE i \in DOMAIN periods : periods[i].name = name
    ELSE 0

\* C8: for every pair of times a <= b that both lie inside one catalogue
\* period's interval [start, end], _detect_periods returns exactly that one
\* period, and a label equal to its name.
C8_InsideOnePeriod ==
    pc = "detected" =>
        \A i \in DOMAIN periods :
            (/\ periods[i].start <= from_time
             /\ from_time <= to_time
             /\ to_time <= periods[i].end)
            => detected = <<<<periods[i].name>>, periods[i].name>>

C8_Witness ==
    /\ pc = "detected"
    /\ from_time = Time(9, 35)
    /\ to_time = Time(10, 20)
    /\ detected = <<<<<<"3">>>>, <<"3">>>>

\* C9: the returned list holds a catalogue period p if and only if
\* from_time <= p.end and to_time >= p.start (both bounds inclusive), and it
\* lists the periods in catalogue order.
C9_InclusiveOverlapInOrder ==
    pc = "detected" =>
        /\ \A i \in DOMAIN periods :
              (\E k \in DOMAIN detected[1] : detected[1][k] = periods[i].name)
              <=> (from_time <= periods[i].end /\ to_time >= periods[i].start)
        /\ \A k \in DOMAIN detected[1] : CatalogueIndex(detected[1][k]) # 0
        /\ \A k1, k2 \in DOMAIN detected[1] :
              k1 < k2 => CatalogueIndex(detected[1][k1])
                             < CatalogueIndex(detected[1][k2])

C9_Witness ==
    /\ pc = "detected"
    /\ from_time = Time(8, 40)
    /\ to_time = Time(9, 35)
    /\ detected[1] = <<<<"1">>, <<"2">>, <<"3">>>>

\* C10: for a non-empty hit list, outside the midnight case, the label is
\* "celý den" when the list is the whole catalogue or holds at least 7
\* periods, the period's own name when exactly one period is hit, and
\* "<first hit>-<last hit>" otherwise.
C10_LabelOfHitList ==
    (/\ pc = "detected"
     /\ detected[1] # << >>
     /\ ~ (from_time = Midnight /\ to_time = Midnight))
    => LET hits == detected[1]
       IN  detected[2] =
               IF hits = PeriodNames \/ Len(hits) >= 7 THEN WholeDay
               ELSE IF Len(hits) = 1 THEN hits[1]
               ELSE hits[1] \o <<"-">> \o hits[Len(hits)]

C10_Witness ==
    /\ pc = "detected"
    /\ Len(detected[1]) = 7
    /\ detected[1][1] = <<"2">>
    /\ detected[2] = WholeDay

\* C11: when from_time and to_time are both 00:00, _detect_periods returns
\* the empty period list together with the label "celý den"; the catalogue
\* of the schedule holds no period that reaches midnight.
C11_MidnightIsWholeDay ==
    (pc = "detected" /\ from_time = Time(0, 0) /\ to_time = Time(0, 0)) =>
        /\ detected = <<<< >>, WholeDay>>
        /\ \A i \in DOMAIN periods : periods[i].start > Time(0, 0)

C11_Witness ==
    /\ pc = "detected"
    /\ from_time = Time(0, 0)
    /\ to_time = Time(0, 0)
    /\ detected[1] = << >>
    /\ detected[2] = WholeDay

(***************************************************************************)
(* Properties of the record extractor (specification SpecExtract).         *)
(***************************************************************************)
\* The filtering policy as the claim states it, for a record of class c.
KeptByPolicy(c) ==
    \/ (settings.include # {} /\ c \in settings.include)
    \/ (settings.include = {} /\ settings.exclude # {}
        /\ c \notin settings.exclude)
    \/ (settings.include = {} /\ settings.exclude = {})

\* The events whose record the policy keeps, in document order.
KeptEvents == SelectSeq(root, LAMBDA ev : KeptByPolicy(ClassNameOf(Index, ev)))

\* The classes of the records extract_substitutions returned, in order.
ExtractedRecords == [k \in DOMAIN substitutions |-> heap[substitutions[k]]]

\* C7: extract_substitutions keeps a candidate record iff (include set
\* non-empty and its Class in it) or (include set empty, exclude set
\* non-empty and its Class not in it) or (both sets empty); when the include
\* set is not empty the exclude set has no say, so that a class in both sets
\* is kept.
C7_IncludeBeforeExclude ==
    pc = "extracted" =>
        /\ ExtractedRecords =
               [k \in DOMAIN KeptEvents |-> BuildRecord(Index, KeptEvents[k])]
        /\ settings.include # {} =>
               \A k \in DOMAIN root :
                   (\E j \in DOMAIN ExtractedRecords :
                       ExtractedRecords[j] = BuildRecord(Index, root[k]))
                   <=> ClassNameOf(Index, root[k]) \in settings.include

C7_Witness ==
    /\ pc = "extracted"
    /\ settings.include = {C3A}
    /\ settings.exclude = {C3A}
    /\ Len(root) = 2
    /\ ClassNameOf(Index, root[1]) = C3B
    /\ ClassNameOf(Index, root[2]) = C3A
    /\ Len(substitutions) = 1
    /\ heap[substitutions[1]].Class = C3A

\* An event whose CasOd or CasDo datetime.fromisoformat rejects.
Malformed(ev) == ~ ev.CasOd.iso \/ ~ ev.CasDo.iso

\* C16: when the CasOd or the CasDo of any one substitution event is empty
\* or malformed, extract_substitutions raises and returns no list, however
\* many well-formed events come before it and whatever the class filter
\* says of the event; it returns a list only when every event is well
\* formed.
C16_MalformedTimeRaises ==
    pc \in {"extracted", "raised"} =>
        /\ (pc = "raised") <=> (\E k \in DOMAIN root : Malformed(root[k]))
        /\ pc = "raised" => (substitutions = << >> /\ heap = << >>)

C16_Witness ==
    /\ pc = "raised"
    /\ Len(root) = 2
    /\ ~ Malformed(root[1])
    /\ KeptByPolicy(ClassNameOf(Index, root[1]))
    /\ ~ root[2].CasDo.iso
    /\ ~ KeptByPolicy(ClassNameOf(Index, root[2]))
    /\ substitutions = << >>

(***************************************************************************)
(* Properties of the period labels (specification SpecPeriodLabel).        *)
(***************************************************************************)
\* The label of the static period-id mapping for an event.
StaticLabel(ev) == Get(Index.period_mapping, ev.OBDOBI_DNE_ID, EmptyStr)

\* The label the period resolver derives from the times of an event.
DerivedLabel(ev) == _detect_periods(ev.CasOd.time, ev.CasDo.time)[2]

\* C24: extract_substitutions resolves the period label through the static
\* period-id mapping and through the period resolver, from the start and
\* end time of the event; whenever the two labels differ, the Period of
\* the emitted record is the time-derived one.
C24_TimeDerivedLabelPreferred ==
    pc = "extracted" =>
        /\ Len(substitutions) = Len(root)
        /\ \A k \in DOMAIN root :
               StaticLabel(root[k]) # DerivedLabel(root[k])
                   => ExtractedRecords[k].Period = DerivedLabel(root[k])

C24_Witness ==
    /\ pc = "extracted"
    /\ Len(root) = 2
    /\ StaticLabel(root[1]) = P3
    /\ ExtractedRecords[1].Period = <<"3", "-", "4">>
    /\ StaticLabel(root[2]) = <<"3", "-", "4">>
    /\ ExtractedRecords[2].Period = WholeDay

\* The interval of the event meets no period of the catalogue and is not
\* midnight to midnight.
NoHit(ev) ==
    /\ \A i \in DOMAIN periods :
           \/ ev.CasDo.time < periods[i].start
           \/ ev.CasOd.time > periods[i].end
    /\ ~ (ev.CasOd.time = Midnight /\ ev.CasDo.time = Midnight)

\* C30: for an interval that meets no catalogue period and is not midnight
\* to midnight (in a break, before the first or after the last period) the
\* period resolver returns the empty list and the empty label, and
\* extract_substitutions emits the record with an empty Period, also when
\* the static period-id mapping holds a label for the event.
C30_NoHitGivesEmptyPeriod ==
    pc = "extracted" =>
        /\ Len(substitutions) = Len(root)
        /\ \A k \in DOMAIN root :
               NoHit(root[k]) =>
                   /\ _detect_periods(root[k].CasOd.time, root[k].CasDo.time)
                          = <<<< >>, EmptyStr>>
                   /\ ExtractedRecords[k].Period = EmptyStr

C30_Witness ==
    /\ pc = "extracted"
    /\ Len(root) = 2
    /\ NoHit(root[1])
    /\ root[1].CasDo.time < Time(7, 55)
    /\ StaticLabel(root[1]) = P3
    /\ ExtractedRecords[1].Period = EmptyStr
    /\ NoHit(root[2])
    /\ root[2].CasOd.time > Time(10, 20)
    /\ root[2].CasDo.time < Time(10, 30)
    /\ StaticLabel(root[2]) = <<"3", "-", "4">>
    /\ ExtractedRecords[2].Period = EmptyStr

(***************************************************************************)
(* Properties of the index builder (specification SpecIndex).              *)
(***************************************************************************)
\* The identifiers of the elements of a tag that have all the children the
\* mapping of the tag requires.
CompleteIds(tag, id, required) ==
    {Text(findall(document, tag)[k], id) :
        k \in {j \in DOMAIN findall(document, tag) :
                  \A key \in required : Has(findall(document, tag)[j], key)}}

\* Every mapping holds exactly the elements that have their required
\* children.
SkipsIncomplete ==
    /\ DOMAIN mappings.subject_mapping
          = CompleteIds("Predmet", "REALIZACE_ID", {"REALIZACE_ID", "Zkratka"})
    /\ DOMAIN mappings.room_mapping
          = CompleteIds("Mistnost", "MISTNOST_ID", {"MISTNOST_ID", "Zkratka"})
    /\ DOMAIN mappings.period_mapping
          = CompleteIds("VyucovaciHodinaOd", "OBDOBI_DNE_ID",
                        {"OBDOBI_DNE_ID", "Nazev"})
    /\ DOMAIN mappings.teacher_mapping
          = CompleteIds("Ucitel", "OSOBA_ID",
                        {"OSOBA_ID", "Zkratka", "Jmeno", "Prijmeni"})
            \cup CompleteIds("Ucitel2", "OSOBA_ID",
                             {"OSOBA_ID", "Zkratka", "Jmeno", "Prijmeni"})
    /\ DOMAIN mappings.class_mapping
          = CompleteIds("Trida", "SKUPINA_ID", {"SKUPINA_ID", "Nazev"})
    /\ DOMAIN mappings.group_mapping
          = CompleteIds("TridaSkupinaSeminar", "SKUPINA_ID",
                        {"SKUPINA_ID", "SKUPINA_ID_PARENT"})
    /\ DOMAIN mappings.event_group_mapping
          = CompleteIds("UdalostStudijniSkupina", "UDALOST_ID",
                        {"UDALOST_ID", "SKUPINA_ID"})
    /\ DOMAIN mappings.event_room_mapping
          = CompleteIds("UdalostMistnost", "UDALOST_ID",
                        {"UDALOST_ID", "MISTNOST_ID"})
    /\ DOMAIN mappings.event_teacher_mapping
          = CompleteIds("UdalostOsoba", "UDALOST_ID",
                        {"UDALOST_ID", "OSOBA_ID"})
    /\ DOMAIN mappings.absence_reason_mapping
          = CompleteIds("SuplovaniDruhAbsence", "SUPL_DRUH_ABSENCE_ID",
                        {"SUPL_DRUH_ABSENCE_ID", "Nazev"})

\* C14 as stated: for a document whose date parses, the construction of the
\* index completes whatever children its elements lack, and every mapping
\* (subjects, rooms, periods, teachers, classes, groups, event-group,
\* event-rooms, event-teachers, absence reasons) holds exactly the elements
\* that have their required identifying children.
C14_Original ==
    (pc \in {"constructed", "failed"} /\ _extract_date(document) # "raised")
    => (pc = "constructed" /\ SkipsIncomplete)

(***************************************************************************)
(* Properties of the absence extractor (specification SpecAbsences).       *)
(***************************************************************************)
\* C15 as stated: a lookup of an identifier the index does not hold never
\* fails: whatever event, reason or teacher identifiers the absence
\* elements carry, extract_absences raises no error on a lookup (an error
\* it raises can only be the parse error of a malformed time), and a pair
\* whose teacher is not in the index still gives a row, with the default
\* teacher name.
C15_Original ==
    pc \in {"absences", "absences_raised"} =>
        /\ absences.raised # "AttributeError"
        /\ absences.raised = "" =>
               \A i, j \in DOMAIN document :
                   (/\ document[i].tag = "AbsenceZdrojeVeDni"
                    /\ document[j].tag = "AbsenceUcitele"
                    /\ AbsenceRow(mappings, document[i], document[j]).kind
                           # "skip")
                   => \E k \in DOMAIN absences.list :
                          absences.list[k]
                              = AbsenceRow(mappings, document[i],
                                           document[j]).row

(***************************************************************************)
(* Properties of the absence-row walk (specification SpecAbsenceRows).      *)
(***************************************************************************)
\* The pairs of an AbsenceZdrojeVeDni element and an AbsenceUcitele
\* element, in document order of the first and then of the second.
AllPairs ==
    LET sources == findall(document, "AbsenceZdrojeVeDni")
        rows == findall(document, "AbsenceUcitele")
    IN  [k \in 1..(Len(sources) * Len(rows)) |->
            <<sources[((k - 1) \div Len(rows)) + 1],
              rows[((k - 1) % Len(rows)) + 1]>>]

\* The element pair carries the same event id on both sides.
Matching(pair) ==
    /\ Has(pair[1], "UDALOST_ID")
    /\ Has(pair[2], "UDALOST_ID")
    /\ Text(pair[1], "UDALOST_ID") = Text(pair[2], "UDALOST_ID")

\* The matching pairs that give a record: the teacher row has a teacher id
\* and the teacher is no assistant.
RecordPairs ==
    SelectSeq(AllPairs,
              LAMBDA pair :
                  /\ Matching(pair)
                  /\ Has(pair[2], "OSOBA_ID")
                  /\ Upper(mappings.teacher_mapping[Text(pair[2], "OSOBA_ID")]
                               .abbreviation) \notin Assistants)

\* A matching teacher row without a teacher id.
RowWithoutTeacherId(pair) == Matching(pair) /\ ~ Has(pair[2], "OSOBA_ID")

\* C21: a matching teacher-absence row without a teacher id gives no
\* record and does not end the walk: the call returns normally, and the
\* list is made of the records of all other matching rows (assistants
\* left out), one per pair, in document order, those before and those
\* after the row without an id alike.
C21_RowWithoutTeacherIdSkippedAlone ==
    pc \in {"absences", "absences_raised"} =>
        /\ pc = "absences"
        /\ absences.raised = ""
        /\ Len(absences.list) = Len(RecordPairs)
        /\ \A k \in DOMAIN RecordPairs :
               LET source == RecordPairs[k][1]
                   teacher == mappings.teacher_mapping[
                                  Text(RecordPairs[k][2], "OSOBA_ID")]
               IN  /\ absences.list[k].Teacher = teacher.name
                   /\ absences.list[k].From = HourMinute(Text(source, "Od").time)
                   /\ absences.list[k].To = HourMinute(Text(source, "Do").time)

C21_Witness ==
    /\ pc = "absences"
    /\ Len(absences.list) = 2
    /\ absences.list[1].Teacher # absences.list[2].Teacher
    /\ \E k \in DOMAIN AllPairs :
           /\ RowWithoutTeacherId(AllPairs[k])
           /\ \E i, j \in DOMAIN AllPairs :
                  /\ i < k
                  /\ k < j
                  /\ \E m \in DOMAIN RecordPairs : RecordPairs[m] = AllPairs[i]
                  /\ \E m \in DOMAIN RecordPairs : RecordPairs[m] = AllPairs[j]

(***************************************************************************)
(* Properties of generate (specification SpecGenerate).                    *)
(***************************************************************************)
\* The records handed to the renderer, in order.
RenderedRecords == [k \in DOMAIN rendered.rows |-> heap[rendered.rows[k]]]

\* C12 as stated: when day_end_period() gives a maximum period m, the
\* record list generate hands to a renderer holds no record whose Period
\* label starts after m and no label that extends past m.
C12_Original ==
    (/\ pc = "generated"
     /\ rendered.given
     /\ day_end_period(settings) # NoneVal)
    => \A k \in DOMAIN RenderedRecords :
           LET parsed == _parse_period_range(RenderedRecords[k].Period)
               m == NumberOf(day_end_period(settings))
           IN  parsed = << >> \/ (parsed[1] <= m /\ parsed[2] <= m)

\* C13 as stated: the CSV writer and the HTML template are both given the
\* list extract_final_substitutions2 returned, so that no general
\* cancellation of a slot that also holds a substitution is rendered.
C13_Original ==
    (pc = "generated" /\ output_format \in {"csv", "html"}) =>
        /\ rendered.given
        /\ rendered.rows = final_list
        /\ \A k \in DOMAIN RenderedRecords :
              IsGeneralCancel(RenderedRecords[k]) =>
                  \A i \in DOMAIN input :
                      SlotKey(input[i]) = SlotKey(RenderedRecords[k])
                      => ~ IsSubstitution(input[i])

(***************************************************************************)
(* Properties of concurrent runs (specification SpecWorkers).              *)
(***************************************************************************)
\* What processing the document of run d alone gives.
Alone(d) ==
    generate(SuplovaniZaci(WorkerDocument(d)), settings,
             WorkerDocument(d), workers[d].events, "html")

\* A finished run holds the absence and substitution lists of its document
\* processed alone.
ResultsAsAlone ==
    \A d \in Workers :
        workers[d].pc = "reconciled" =>
            /\ workers[d].absences = Alone(d).absences
            /\ workers[d].raw = Alone(d).raw_substitutions
            /\ workers[d].final = Alone(d).substitutions
            /\ workers[d].heap = Alone(d).heap

\* A step changes the instance of one run only.
OneInstanceOnly ==
    \E d \in Workers : \A o \in Workers \ {d} : workers'[o] = workers[o]

\* C17 as stated: in every interleaving each run ends with the lists of its
\* document processed alone, and no step of a run writes state the other
\* run reads: a step changes nothing but the instance of its own run.
C17_Original ==
    /\ [] ResultsAsAlone
    /\ [][OneInstanceOnly /\ config' = config]_vars

\* C17 as amended: in every interleaving each run ends with the lists of
\* its document processed alone; a step changes the instance of its own run
\* only, and the one state the runs share, the cache of the Settings
\* object, which a step may load or reload: with the configuration
\* unchanged, a reload leaves the settings the cache holds as they were.
C17_IndependentButForSettingsCache ==
    /\ [] ResultsAsAlone
    /\ [][/\ OneInstanceOnly
          /\ settings' = settings
          /\ config' \in {config, [loaded |-> TRUE, settings |-> settings]}
          /\ config.loaded => config' = config]_vars

C17_Witness ==
    /\ \A d \in Workers : workers[d].pc = "reconciled"
    /\ settings.include = {C3A}
    /\ config.loaded
    /\ Len(workers[1].events) = 2
    /\ Len(workers[2].events) = 2
    /\ Len(workers[1].final) = 1
    /\ workers[1].heap[workers[1].final[1]].Note = <<"z", "a", " ", "M">>
    /\ workers[2].raw = << >>
    /\ workers[1].absences.list # workers[2].absences.list

(***************************************************************************)
(* Properties of a call under a changing configuration (specification      *)
(* SpecReload).                                                            *)
(***************************************************************************)
\* C28 as stated: within one extract_substitutions call every record is
\* decided under the same include and exclude sets, also when the
\* configuration file is edited while the call iterates: every read of the
\* call returns the sets its first read returned, and the membership test
\* of a record sees the set its emptiness test saw.
C28_Original ==
    /\ workers[1].read =>
           /\ workers[1].last.include = workers[1].first.include
           /\ workers[1].last.exclude = workers[1].first.exclude
    /\ workers[1].member => workers[1].checked = workers[1].tested

====
